---- MODULE Spec2Model ----
(***************************************************************************)
(* A model of the RiskLens event/risk extraction engine:                   *)
(*   backend/src/event_detector.py  (pattern compilation, detection)        *)
(*   backend/src/api.py             (temporal resolution, aggregation)      *)
(*                                                                         *)
(* Character offsets are 0-based and spans are half-open, as in Python;    *)
(* TLA+ sequences are 1-based, so the character at offset i is text[i+1].  *)
(***************************************************************************)
EXTENDS Integers, Sequences, FiniteSets, TLC

\* ------------------------------------------------------------------ bounds

\* Longest document text that is enumerated.
MaxLen == 4

\* ------------------------------------------------------------- characters

\* The alphabet of document texts: a lower-case letter, an upper-case letter
\* and a non-word character.
Chars == {"a", "B", " "}

Texts == UNION {[1..n -> Chars] : n \in 0..MaxLen}

\* Case folding of re.IGNORECASE.
Lower(c) == IF c = "B" THEN "b" ELSE c

\* \w of the regex engine.
IsWord(c) == c # " "

\* The pattern w matches text at offset pos (re.IGNORECASE).
MatchAt(w, txt, pos) ==
    /\ pos + Len(w) <= Len(txt)
    /\ \A i \in 1..Len(w) : Lower(txt[pos + i]) = Lower(w[i])

\* \b of the regex engine at offset pos.
WordBoundary(txt, pos) ==
    LET before == pos >= 1 /\ IsWord(txt[pos])
        after  == pos < Len(txt) /\ IsWord(txt[pos + 1])
    IN  before # after

\* ---------------------------------------------------------------- patterns

\* Explicit pattern strings of the configuration: a literal, an optional
\* group "(?:w)?" and a string re.compile rejects (such as "(").
Lit(w) == [kind |-> "lit", w |-> w]
Opt(w) == [kind |-> "opt", w |-> w]
Bad    == [kind |-> "bad", w |-> <<>>]

\* The keyword matcher \b(?:k1|k2|...)\b.
KwRe(keywords) == [kind |-> "kw", alts |-> keywords]

\* re.compile raises re.error.
CompileFails(rx) == rx.kind = "bad"

\* The first alternative of the keyword matcher that matches at pos with a
\* word boundary on both sides; 0 when none does.
KwAltAt(alts, txt, pos) ==
    LET ok == {k \in 1..Len(alts) :
                  /\ MatchAt(alts[k], txt, pos)
                  /\ WordBoundary(txt, pos)
                  /\ WordBoundary(txt, pos + Len(alts[k]))}
    IN  IF ok = {} THEN 0 ELSE CHOOSE k \in ok : \A j \in ok : k <= j

\* compiled.finditer(text): the spans <<start, end>> of the successive
\* non-overlapping matches, scanning from offset pos.
RECURSIVE FindIterFrom(_, _, _)
FindIterFrom(re, txt, pos) ==
    IF pos > Len(txt) THEN <<>>
    ELSE IF re.kind = "kw" THEN
        LET k == KwAltAt(re.alts, txt, pos)
        IN  IF k = 0 THEN FindIterFrom(re, txt, pos + 1)
            ELSE <<<<pos, pos + Len(re.alts[k])>>>>
                 \o FindIterFrom(re, txt, pos + Len(re.alts[k]))
    ELSE IF re.kind = "lit" THEN
        IF MatchAt(re.w, txt, pos)
        THEN <<<<pos, pos + Len(re.w)>>>> \o FindIterFrom(re, txt, pos + Len(re.w))
        ELSE FindIterFrom(re, txt, pos + 1)
    ELSE \* "opt": the group or, failing that, the empty match
        IF MatchAt(re.w, txt, pos)
        THEN <<<<pos, pos + Len(re.w)>>>> \o FindIterFrom(re, txt, pos + Len(re.w))
        ELSE <<<<pos, pos>>>> \o FindIterFrom(re, txt, pos + 1)

FindIter(re, txt) == FindIterFrom(re, txt, 0)

\* ----------------------------------------------------------------- catalog

Range(s) == {s[i] : i \in DOMAIN s}

\* An optional value: None, or Some(x).
None    == <<>>
Some(x) == <<x>>

\* One entry of config/event_durations.json as EventDurationLookup loads it.
EventDef(id, keywords, regexes, tstar) ==
    [id |-> id, keywords |-> keywords, regex_patterns |-> regexes,
     T_star_days |-> tstar]

W_a  == <<"a">>
W_b  == <<"b">>
W_ab == <<"a", "b">>
W_ba == <<"b", "a">>
W_sa == <<" ", "a">>
W_bs == <<"b", " ">>

\* The catalogs that are enumerated (self.lookup.events, in file order).
Catalogs ==
    { <<EventDef("recall", <<W_a>>, <<>>, Some(90))>>,
      <<EventDef("recall", <<W_ab>>, <<Lit(W_ab)>>, Some(90))>>,
      <<EventDef("recall", <<>>, <<Lit(W_ab)>>, Some(90)),
        EventDef("probe", <<>>, <<Lit(W_ba), Lit(W_a)>>, Some(30))>>,
      <<EventDef("recall", <<>>, <<Lit(W_sa)>>, Some(90)),
        EventDef("probe", <<W_ab>>, <<Lit(W_bs)>>, Some(30))>>,
      <<EventDef("recall", <<>>, <<Bad>>, Some(90)),
        EventDef("probe", <<W_a>>, <<Bad, Lit(W_ba)>>, Some(30)),
        EventDef("default", <<>>, <<>>, None)>>,
      <<EventDef("recall", <<W_b>>, <<Opt(W_a)>>, Some(90))>>,
      <<EventDef("recall", <<>>, <<Opt(W_a), Opt(W_ab)>>, None)>>,
      <<EventDef("recall", <<W_a, W_ab>>, <<>>, Some(90)),
        EventDef("probe", <<W_b>>, <<Lit(W_b)>>, None)>> }

\* ------------------------------------------------------------- compilation

\* The keyword part of compiled_list: one matcher when keywords is non-empty.
CompileKeywords(cfg) ==
    IF cfg.keywords # <<>>
    THEN <<[re |-> KwRe(cfg.keywords), source |-> "keyword"]>>
    ELSE <<>>

\* A variant that stops at the first invalid pattern (break for continue).
RECURSIVE CompileRegexes_Break(_)
CompileRegexes_Break(regexes) ==
    IF regexes = <<>> THEN <<>>
    ELSE IF CompileFails(Head(regexes)) THEN <<>>
    ELSE <<[re |-> Head(regexes), source |-> "regex"]>>
         \o CompileRegexes_Break(Tail(regexes))

\* The explicit part of compiled_list: every pattern that compiles, in order.
RECURSIVE CompileRegexes(_)
CompileRegexes(regexes) ==
    IF regexes = <<>> THEN <<>>
    ELSE IF CompileFails(Head(regexes)) THEN CompileRegexes(Tail(regexes))
    ELSE <<[re |-> Head(regexes), source |-> "regex"]>>
         \o CompileRegexes(Tail(regexes))

CompiledList(cfg) == CompileKeywords(cfg) \o CompileRegexes(cfg.regex_patterns)

\* self.patterns after _compile_patterns, as the ordered list of its items.
RECURSIVE CompileTable(_)
CompileTable(evs) ==
    IF evs = <<>> THEN <<>>
    ELSE LET cfg == Head(evs)
             compiled_list == CompiledList(cfg)
         IN  IF compiled_list = <<>> THEN CompileTable(Tail(evs))
             ELSE <<[event_type |-> cfg.id, patterns |-> compiled_list,
                     T_star_days |-> cfg.T_star_days]>>
                  \o CompileTable(Tail(evs))

\* --------------------------------------------------------------- detection

\* The raw matches of one compiled pattern of one table entry.
PatternMatches(meta, pat, txt) ==
    LET spans == FindIter(pat.re, txt)
    IN  [i \in 1..Len(spans) |->
            [event_type     |-> meta.event_type,
             T_star_days    |-> meta.T_star_days,
             match_text     |-> SubSeq(txt, spans[i][1] + 1, spans[i][2]),
             match_span     |-> spans[i],
             pattern_source |-> pat.source]]

RECURSIVE EntryMatches(_, _, _)
EntryMatches(meta, pats, txt) ==
    IF pats = <<>> THEN <<>>
    ELSE PatternMatches(meta, Head(pats), txt) \o EntryMatches(meta, Tail(pats), txt)

\* raw_matches after the collection loops.
RECURSIVE CollectMatches(_, _)
CollectMatches(table, txt) ==
    IF table = <<>> THEN <<>>
    ELSE EntryMatches(Head(table), Head(table).patterns, txt)
         \o CollectMatches(Tail(table), txt)

SpanLen(span) == span[2] - span[1]

\* A variant that prefers keyword matches.
_source_priority_Flipped(src) == IF src = "regex" THEN 1 ELSE 0

_source_priority(src) == IF src = "regex" THEN 0 ELSE 1

\* Python's comparison of two 2-tuples of integers.
TupleLess(k1, k2) == k1[1] < k2[1] \/ (k1[1] = k2[1] /\ k1[2] < k2[2])

\* list.sort / sorted with a key: the sort is stable, so the element at
\* index i lands after the elements with a smaller key and after the equal
\* ones that precede it.
SortRank(keys, i) ==
    Cardinality({j \in 1..Len(keys) :
                    TupleLess(keys[j], keys[i]) \/ (keys[j] = keys[i] /\ j < i)}) + 1

StableSort(s, keys) ==
    [p \in 1..Len(s) |-> s[CHOOSE i \in 1..Len(s) : SortRank(keys, i) = p]]

\* A variant that sorts the shortest matches first.
RawSortKey_Ascending(r) ==
    <<SpanLen(r.match_span), _source_priority(r.pattern_source)>>

\* key=lambda r: (-(end - start), _source_priority(pattern_source))
RawSortKey(r) == <<0 - SpanLen(r.match_span), _source_priority(r.pattern_source)>>

\* A variant whose key does not order anything (kept order is returned).
StartSortKey_Constant(r) == <<0, 0>>

\* key=lambda x: x['match_span'][0]
StartSortKey(r) == <<r.match_span[1], 0>>

\* A variant that only tests whether the new span starts inside the kept one.
Overlaps_StartInside(span, kspan) == kspan[1] <= span[1] /\ span[1] < kspan[2]

\* not (e <= ks or s >= ke)
Overlaps(span, kspan) == ~(span[2] <= kspan[1] \/ span[1] >= kspan[2])

\* A variant for which spans that touch overlap too.
OverlapsAny_Touching(span, occ) ==
    \E k \in 1..Len(occ) : ~(span[2] < occ[k][1] \/ span[1] > occ[k][2])

\* for ks, ke in occupied: if not (e <= ks or s >= ke): overlap = True
OverlapsAny(span, occ) == \E k \in 1..Len(occ) : Overlaps(span, occ[k])

\* ---------------------------------------------------------------- calendar

\* datetime.date values are modelled by their proleptic Gregorian ordinal
\* (date.toordinal()); ISO strings as written, by the triple <<y, m, d>>.

IsLeap(y) == y % 4 = 0 /\ (y % 100 # 0 \/ y % 400 = 0)

DaysInMonth(y, m) ==
    IF m = 2 THEN (IF IsLeap(y) THEN 29 ELSE 28)
    ELSE IF m \in {4, 6, 9, 11} THEN 30 ELSE 31

RECURSIVE DaysBeforeMonth(_, _)
DaysBeforeMonth(y, m) ==
    IF m <= 1 THEN 0 ELSE DaysBeforeMonth(y, m - 1) + DaysInMonth(y, m - 1)

\* The fields name a calendar day that datetime accepts (MINYEAR..MAXYEAR).
ValidYMD(y, m, d) ==
    /\ 1 <= y /\ y <= 9999
    /\ 1 <= m /\ m <= 12
    /\ 1 <= d /\ d <= DaysInMonth(y, m)

\* date(y, m, d).toordinal()
ToOrdinal(y, m, d) ==
    LET py == y - 1
    IN  py * 365 + (py \div 4) - (py \div 100) + (py \div 400)
        + DaysBeforeMonth(y, m) + d

\* date.max.toordinal(): date arithmetic beyond it raises OverflowError.
MaxOrdinal == ToOrdinal(9999, 12, 31)

\* date.fromordinal(n) as <<y, m, d>>.
FromOrdinal(n) ==
    LET n0   == n - 1
        n400 == n0 \div 146097
        r400 == n0 % 146097
        n100 == r400 \div 36524
        r100 == r400 % 36524
        n4   == r100 \div 1461
        r4   == r100 % 1461
        n1   == r4 \div 365
        r1   == r4 % 365
        year == n400 * 400 + 1 + n100 * 100 + n4 * 4 + n1
    IN  IF n1 = 4 \/ n100 = 4 THEN <<year - 1, 12, 31>>
        ELSE LET month == CHOOSE mm \in 1..12 :
                              /\ DaysBeforeMonth(year, mm) <= r1
                              /\ r1 < DaysBeforeMonth(year, mm) + DaysInMonth(year, mm)
             IN  <<year, month, r1 - DaysBeforeMonth(year, month) + 1>>

\* d.isoformat()
IsoFormat(n) == FromOrdinal(n)

\* datetime.fromisoformat(x).date()
FromIsoFormat(iso) == ToOrdinal(iso[1], iso[2], iso[3])

\* A date as written in a document or in metadata.json: its shape, the
\* numbers written, and the number of digits of the year.
Written(shape, y, ylen, m, d) ==
    [shape |-> shape, y |-> y, ylen |-> ylen, m |-> m, d |-> d]

Iso(y, m, d)       == Written("iso", y, 4, m, d)
Slash(m, d, y)     == Written("slash", y, 4, m, d)
SlashShort(m, d, y) == Written("slash", y, 2, m, d)
MonthName(m, d, y) == Written("month", y, 4, m, d)

\* metadata.get("filing_date", "N/A") when the file or the field is missing.
NotAvailable == Written("n/a", 0, 0, 0, 0)

\* datetime.strptime(s, fmt).date() over the formats tried for the shape:
\* Some(ordinal), or None when every format raises ValueError.
\* %Y takes four digits; %y takes two and maps 00-68 to 2000-2068 and 69-99
\* to 1969-1999.
StrpTime(w) ==
    IF w.shape \in {"iso", "month"} \/ (w.shape = "slash" /\ w.ylen = 4)
    THEN IF ValidYMD(w.y, w.m, w.d) THEN Some(ToOrdinal(w.y, w.m, w.d)) ELSE None
    ELSE IF w.shape = "slash" /\ w.ylen = 2
    THEN LET year == IF w.y <= 68 THEN 2000 + w.y ELSE 1900 + w.y
         IN  IF ValidYMD(year, w.m, w.d) THEN Some(ToOrdinal(year, w.m, w.d)) ELSE None
    ELSE None

\* -------------------------------------------------------- date resolution

\* The matches of one of the three date patterns, in document order, as
\* (d, m.start(1), m.end(1)); a match strptime rejects is skipped.
RECURSIVE DatesOfShape(_, _)
DatesOfShape(toks, shape) ==
    IF toks = <<>> THEN <<>>
    ELSE LET t == Head(toks)
             d == StrpTime(t.written)
         IN  (IF t.written.shape = shape /\ d # None
              THEN <<[d |-> d[1], ds |-> t.span[1], de |-> t.span[2]]>>
              ELSE <<>>)
             \o DatesOfShape(Tail(toks), shape)

\* _find_dates_in_text: ISO matches first, then mm/dd/yyyy, then month names.
_find_dates_in_text(toks) ==
    DatesOfShape(toks, "iso") \o DatesOfShape(toks, "slash")
    \o DatesOfShape(toks, "month")

\* A variant with exclusive bounds.
InWindow_Exclusive(d, filing_dt, window) ==
    filing_dt - window < d /\ d < filing_dt + window

\* min_dt <= d <= max_dt
InWindow(d, filing_dt, window) ==
    filing_dt - window <= d /\ d <= filing_dt + window

\* The candidates after the filing-date window filter; all of them when the
\* filing date does not parse (ValueError: pass).
WindowFilter(cands, filing, window) ==
    LET filing_dt == StrpTime(filing)
    IN  IF filing_dt = None THEN cands
        ELSE SelectSeq(cands, LAMBDA c : InWindow(c.d, filing_dt[1], window))

Abs(x) == IF x < 0 THEN 0 - x ELSE x

\* abs(dcenter - center), doubled so that the midpoints stay integers.
Dist2(c, span) == Abs((c.ds + c.de) - (span[1] + span[2]))

\* The loop "if best is None or dist < best_dist": the first candidate at
\* the smallest distance.
RECURSIVE NearestFrom(_, _, _)
NearestFrom(cands, span, best) ==
    IF cands = <<>> THEN best
    ELSE LET c == Head(cands)
         IN  IF best = None \/ Dist2(c, span) < Dist2(best[1], span)
             THEN NearestFrom(Tail(cands), span, Some(c))
             ELSE NearestFrom(Tail(cands), span, best)

\* _parse_date_nearest_to_span: Some(date) or None.
_parse_date_nearest_to_span(toks, span, filing, window) ==
    LET candidates == _find_dates_in_text(toks)
        filtered   == WindowFilter(candidates, filing, window)
        best       == NearestFrom(filtered, span, None)
        filing_dt  == StrpTime(filing)
        \* filing_dt -/+ timedelta(days=window_days) raises OverflowError,
        \* which the caller swallows
        raises     == /\ candidates # <<>>
                      /\ filing_dt # None
                      /\ (filing_dt[1] - window < 1 \/ filing_dt[1] + window > MaxOrdinal)
    IN  IF candidates = <<>> \/ raises \/ filtered = <<>> THEN None
        ELSE Some(best[1].d)

\* ------------------------------------------------------------- enrichment

\* The fallback of analyze_ticker: the nearest date, else the filing date
\* when it is not "N/A" and parses, else None.
EventStart(parsed, filing) ==
    IF parsed # None THEN parsed
    ELSE IF filing # NotAvailable THEN StrpTime(filing)
    ELSE None

\* The time relation of an occurrence with a start and an end.
TimeRelation(event_start, end_dt, now) ==
    IF end_dt < now THEN "past"
    ELSE IF event_start > now THEN "future"
    ELSE "ongoing"

\* A variant that counts the start day as the first of the T* days.
EndDate_Inclusive(event_start, T_star) == event_start + T_star - 1

\* end_dt = event_start + timedelta(days=T_star)
EndDate(event_start, T_star) == event_start + T_star

\* The four fields set to None / 'unknown' before the try block.
Unresolved(ev) ==
    [event_type       |-> ev.event_type,
     T_star_days      |-> ev.T_star_days,
     match_text       |-> ev.match_text,
     match_span       |-> ev.match_span,
     pattern_source   |-> ev.pattern_source,
     event_started_on |-> None,
     event_ends_on    |-> None,
     days_remaining   |-> None,
     time_relation    |-> "unknown"]

\* A T_star_days of the catalog that is a string int() rejects.
NotANumber == <<"ninety", "str">>

\* int(v): Some(n), or None when int raises TypeError (v is None) or
\* ValueError (v is a string that is not a number).
IntOf(v) == IF Len(v) = 1 THEN v ELSE None

\* A variant that takes a missing or unusable T_star_days as 0 days.
Enriched_ZeroDefault(ev, event_start, now) ==
    IF event_start = None THEN Unresolved(ev)
    ELSE LET T_star == IF IntOf(ev.T_star_days) = None THEN 0
                       ELSE ev.T_star_days[1]
             end_dt == EndDate(event_start[1], T_star)
         IN  IF end_dt > MaxOrdinal \/ end_dt < 1 THEN Unresolved(ev)
             ELSE [Unresolved(ev) EXCEPT
                      !.event_started_on = Some(IsoFormat(event_start[1])),
                      !.event_ends_on    = Some(IsoFormat(end_dt)),
                      !.days_remaining   = Some(end_dt - now),
                      !.time_relation    = TimeRelation(event_start[1], end_dt, now)]

\* ev_copy after the enrichment of one detected event. int(None) raises
\* TypeError, int of a non-numeric string ValueError, and a date beyond
\* date.max (or before date.min) OverflowError; all are swallowed before
\* any field is set.
Enriched(ev, event_start, now) ==
    IF event_start = None \/ IntOf(ev.T_star_days) = None THEN Unresolved(ev)
    ELSE LET T_star == ev.T_star_days[1]
             end_dt == EndDate(event_start[1], T_star)
         IN  IF end_dt > MaxOrdinal \/ end_dt < 1 THEN Unresolved(ev)
             ELSE [Unresolved(ev) EXCEPT
                      !.event_started_on = Some(IsoFormat(event_start[1])),
                      !.event_ends_on    = Some(IsoFormat(end_dt)),
                      !.days_remaining   = Some(end_dt - now),
                      !.time_relation    = TimeRelation(event_start[1], end_dt, now)]

\* ------------------------------------------------------------- aggregation

\* The index in grouped of the group of event type et; 0 when there is none.
GroupIndex(groups, et) ==
    IF \E k \in 1..Len(groups) : groups[k].event_type = et
    THEN CHOOSE k \in 1..Len(groups) : groups[k].event_type = et
    ELSE 0

\* A variant that never finds a span again.
ExistingSpans_Empty(g) == {}

\* existing_spans of a group.
ExistingSpans(g) == {g.subevents[k].match_span : k \in 1..Len(g.subevents)}

\* One iteration of "for ev in enriched_events" on the grouped table.
AddToGroups(groups, ev) ==
    LET k0 == GroupIndex(groups, ev.event_type)
        gs == IF k0 = 0
              THEN Append(groups, [event_type |-> ev.event_type, count |-> 0,
                                   subevents |-> <<>>])
              ELSE groups
        k  == GroupIndex(gs, ev.event_type)
    IN  IF ev.match_span \in ExistingSpans(gs[k]) THEN gs
        ELSE [gs EXCEPT ![k].subevents = Append(@, ev), ![k].count = @ + 1]

\* A variant that orders by matched-text length alone.
RepresentativeKey_LengthOnly(sub) == <<0, 0 - Len(sub.match_text)>>

\* key=lambda s: (0 if source == 'regex' else 1, -len(match_text))
RepresentativeKey(sub) ==
    <<IF sub.pattern_source = "regex" THEN 0 ELSE 1, 0 - Len(sub.match_text)>>

\* subs_sorted[0]
Representative(subs) ==
    StableSort(subs, [k \in 1..Len(subs) |-> RepresentativeKey(subs[k])])[1]

\* A variant that takes the first value of the list.
SeqMin_First(q) == q[1]

\* min(start_dates)
SeqMin(q) == CHOOSE x \in Range(q) : \A y \in Range(q) : x <= y

\* max(end_dates)
SeqMax(q) == CHOOSE x \in Range(q) : \A y \in Range(q) : x >= y

\* The present members of a sequence of optional values, in order.
Present(q) ==
    LET some == SelectSeq(q, LAMBDA o : o # None)
    IN  [k \in 1..Len(some) |-> some[k][1]]

\* A variant that tests 'past' before 'ongoing'.
GroupRelation_PastFirst(relations) ==
    IF \E k \in 1..Len(relations) : relations[k] = "future" THEN "future"
    ELSE IF relations # <<>> /\ \A k \in 1..Len(relations) : relations[k] = "past"
    THEN "past"
    ELSE IF \E k \in 1..Len(relations) : relations[k] = "past" THEN "past"
    ELSE IF \E k \in 1..Len(relations) : relations[k] = "ongoing" THEN "ongoing"
    ELSE "unknown"

\* The group-level time relation from the members' relations.
GroupRelation(relations) ==
    IF \E k \in 1..Len(relations) : relations[k] = "future" THEN "future"
    ELSE IF \E k \in 1..Len(relations) : relations[k] = "ongoing" THEN "ongoing"
    ELSE IF relations # <<>> /\ \A k \in 1..Len(relations) : relations[k] = "past"
    THEN "past"
    ELSE "unknown"

\* A group after the "for et, g in grouped.items()" iteration on it.
FinalGroup(g, now) ==
    LET subs        == g.subevents
        rep         == Representative(subs)
        starts      == Present([k \in 1..Len(subs) |-> subs[k].event_started_on])
        ends        == Present([k \in 1..Len(subs) |-> subs[k].event_ends_on])
        start_dates == [k \in 1..Len(starts) |-> FromIsoFormat(starts[k])]
        end_dates   == [k \in 1..Len(ends) |-> FromIsoFormat(ends[k])]
        relations   == [k \in 1..Len(subs) |-> subs[k].time_relation]
    IN  [event_type           |-> g.event_type,
         count                |-> g.count,
         subevents            |-> subs,
         representative_match |-> rep.match_text,
         T_star_days          |-> rep.T_star_days,
         event_started_on     |-> IF start_dates # <<>>
                                  THEN Some(IsoFormat(SeqMin(start_dates))) ELSE None,
         event_ends_on        |-> IF end_dates # <<>>
                                  THEN Some(IsoFormat(SeqMax(end_dates))) ELSE None,
         days_remaining       |-> IF end_dates # <<>>
                                  THEN Some(SeqMax(end_dates) - now) ELSE None,
         time_relation        |-> GroupRelation(relations)]

\* --------------------------------------------------------------- documents

\* The filing documents are laid out from items: date-like substrings and
\* the occurrences detect_events returned for the text. An item is followed
\* by one other character; a slash-delimited date by two, the first of them
\* a word character (process_filing_file removes the slash-delimited dates
\* that stand between word boundaries).
MaxItems == 4

DateKinds == {"D1", "D2", "DM", "DX", "DS"}

\* What is written in a date item.
DateOf(kind) ==
    CASE kind = "D1" -> Iso(2023, 1, 15)          \* 2023-01-15
      [] kind = "D2" -> Slash(11, 1, 2022)        \* 11/01/2022
      [] kind = "DM" -> MonthName(12, 31, 9999)   \* December 31, 9999
      [] kind = "DX" -> Iso(2023, 2, 30)          \* 2023-02-30
      [] kind = "DS" -> SlashShort(1, 15, 23)     \* 1/15/23

\* The occurrences of an occurrence item at offset at: a keyword match
\* "recall" (or "Recall"), an explicit-pattern match "recalled" (or
\* "RECALLED"; the patterns ignore case), a keyword match "probe"
\* of an event type without T_star_days, a keyword match "audit" of an
\* event type whose T_star_days is not a number, and two empty matches of
\* two explicit patterns of "recall" at the same offset.
OccsOf(kind, at) ==
    LET occ(et, t, txt, src) ==
            [event_type |-> et, T_star_days |-> t, match_text |-> txt,
             match_span |-> <<at, at + Len(txt)>>, pattern_source |-> src]
    IN  CASE kind = "K"  -> <<occ("recall", Some(90),
                                  <<"r", "e", "c", "a", "l", "l">>, "keyword")>>
          [] kind = "R"  -> <<occ("recall", Some(90),
                                  <<"r", "e", "c", "a", "l", "l", "e", "d">>, "regex")>>
          [] kind = "KU" -> <<occ("recall", Some(90),
                                  <<"R", "e", "c", "a", "l", "l">>, "keyword")>>
          [] kind = "RU" -> <<occ("recall", Some(90),
                                  <<"R", "E", "C", "A", "L", "L", "E", "D">>, "regex")>>
          [] kind = "P"  -> <<occ("probe", None,
                                  <<"p", "r", "o", "b", "e">>, "keyword")>>
          [] kind = "Q"  -> <<occ("audit", NotANumber,
                                  <<"a", "u", "d", "i", "t">>, "keyword")>>
          [] kind = "ZZ" -> <<occ("recall", Some(90), <<>>, "regex"),
                              occ("recall", Some(90), <<>>, "regex")>>

ItemWidth(kind) ==
    CASE kind \in {"D1", "D2", "DX"} -> 10
      [] kind = "DM" -> 17
      [] kind = "DS" -> 7
      [] kind \in {"K", "KU"} -> 6
      [] kind \in {"R", "RU"} -> 8
      [] kind \in {"P", "Q"} -> 5
      [] kind = "ZZ" -> 0

\* The characters between an item and the next.
Gap(kind) == IF kind \in {"D2", "DS"} THEN 2 ELSE 1

\* The date-like substrings of the document made of items, from offset at.
RECURSIVE LayoutDates(_, _)
LayoutDates(items, at) ==
    IF items = <<>> THEN <<>>
    ELSE LET kind == Head(items)
             w    == ItemWidth(kind)
         IN  (IF kind \in DateKinds
              THEN <<[written |-> DateOf(kind), span |-> <<at, at + w>>]>>
              ELSE <<>>)
             \o LayoutDates(Tail(items), at + w + Gap(kind))

\* The occurrences of the document made of items, from offset at.
RECURSIVE LayoutOccs(_, _)
LayoutOccs(items, at) ==
    IF items = <<>> THEN <<>>
    ELSE LET kind == Head(items)
         IN  (IF kind \in DateKinds THEN <<>> ELSE OccsOf(kind, at))
             \o LayoutOccs(Tail(items), at + ItemWidth(kind) + Gap(kind))

Doc(items) == [dates |-> LayoutDates(items, 0), occs |-> LayoutOccs(items, 0)]

\* "The company announced a product recall on 2023-03-01 affecting several
\* units.": keyword "recall" at [32, 38), the ISO date at [42, 52).
RecallDoc ==
    [dates |-> <<[written |-> Iso(2023, 3, 1), span |-> <<42, 52>>]>>,
     occs  |-> <<[event_type |-> "recall", T_star_days |-> Some(90),
                  match_text |-> <<"r", "e", "c", "a", "l", "l">>,
                  match_span |-> <<32, 38>>, pattern_source |-> "keyword"]>>]

\* "March 15, 2023, recall on 2023-03-01": the spelled-month date at
\* [0, 14), keyword "recall" at [16, 22), the ISO date at [26, 36); the
\* midpoints of the two dates are equally far from the midpoint of "recall".
TieDoc ==
    [dates |-> <<[written |-> MonthName(3, 15, 2023), span |-> <<0, 14>>],
                 [written |-> Iso(2023, 3, 1), span |-> <<26, 36>>]>>,
     occs  |-> <<[event_type |-> "recall", T_star_days |-> Some(90),
                  match_text |-> <<"r", "e", "c", "a", "l", "l">>,
                  match_span |-> <<16, 22>>, pattern_source |-> "keyword"]>>]

CommonDocs ==
    LET \* The documents enumerated in full: every sequence of up to MaxItems items
        \* of the four common kinds with at least one occurrence.
        CommonKinds == {"D1", "D2", "K", "P"}
    IN  {Doc(items) : items \in
            {q \in UNION {[1..n -> CommonKinds] : n \in 1..MaxItems} :
                \E k \in DOMAIN q : q[k] \notin DateKinds}}

\* Documents with the rarer items.
RareDocs ==
    {Doc(items) : items \in
        { <<"K", "DM", "D2", "K">>, <<"D1", "ZZ", "K">>, <<"ZZ", "P", "ZZ">>,
          <<"DX", "K">>, <<"DS", "K", "D2">>, <<"K", "D1", "R">>,
          <<"R", "K">>, <<"D2", "R", "D1", "K">>,
          <<"D1", "Q", "K">>, <<"K", "P", "Q", "D1">>,
          <<"KU", "K">>, <<"K", "KU", "R">>, <<"RU", "R", "K">>, <<"R", "RU">> }}

\* datetime.now().date() of the runs.
Todays == {ToOrdinal(2023, 1, 14), ToOrdinal(2023, 4, 15), ToOrdinal(2023, 4, 16)}

Env(filing, window, now) == [filing |-> filing, window |-> window, now |-> now]

\* Filing date (of metadata.json), window_days (of the request) and clock.
Envs ==
    {Env(f, 30, t) : f \in {NotAvailable, Iso(2023, 1, 10)}, t \in Todays}
    \cup {Env(Iso(2023, 1, 10), w, ToOrdinal(2023, 4, 15)) : w \in {4, 5, 69, 70}}

Scenarios ==
    LET RecallEnvs == {Env(Iso(2023, 3, 1), 30, t) : t \in Todays}
    IN  ((CommonDocs \cup RareDocs) \X Envs) \cup ({RecallDoc, TieDoc} \X RecallEnvs)

\* ------------------------------------------------------ sentence extraction

\* A Python str as the sequence of its characters.
Str(s) == [i \in 1..Len(s) |-> SubSeq(s, i, i)]

UpperLetters == Str("ABCDEFGHIJKLMNOPQRSTUVWXYZ")
LowerLetters == Str("abcdefghijklmnopqrstuvwxyz")
UpperSet     == Range(UpperLetters)
LowerSet     == Range(LowerLetters)
Digits       == Range(Str("0123456789"))
WordChars    == UpperSet \cup LowerSet \cup Digits \cup {"_"}

IsUpper(c) == c \in UpperSet
IsAZ(c)    == c \in LowerSet
IsSpace(c) == c \in {" ", "\n", "\t"}

\* \w of the regex engine on the characters of the documents.
IsWordChar(c) == c \in WordChars

\* str.lower()
LowerOf ==
    [c \in UpperSet |-> LowerLetters[CHOOSE k \in 1..26 : UpperLetters[k] = c]]

LowerChar(c) == IF IsUpper(c) THEN LowerOf[c] ELSE c

str_lower(s) == [i \in 1..Len(s) |-> LowerChar(s[i])]

\* The smallest and the largest member of a non-empty set of integers.
SetMin(S) == CHOOSE x \in S : \A y \in S : x <= y
SetMax(S) == CHOOSE x \in S : \A y \in S : x >= y

\* re.sub(r'\s+', ' ', raw).strip(): the last step of _clean_sec_text and
\* the only one that changes a text without markup, entities, list markers,
\* digits next to letters, or exhibit and signature sections.
_clean_sec_text(raw) ==
    LET indexed == [i \in 1..Len(raw) |-> <<i, raw[i]>>]
        \* the first character of every run of whitespace stays, as a space
        keep(p) == ~IsSpace(p[2]) \/ (p[1] > 1 /\ ~IsSpace(raw[p[1] - 1]))
        kept    == SelectSeq(indexed, keep)
        spaced  == [k \in 1..Len(kept) |->
                       IF IsSpace(kept[k][2]) THEN " " ELSE kept[k][2]]
    IN  IF spaced # <<>> /\ spaced[Len(spaced)] = " "
        THEN SubSeq(spaced, 1, Len(spaced) - 1)
        ELSE spaced

\* ph in s
Contains(s, ph) ==
    \E p \in 0..(Len(s) - Len(ph)) : SubSeq(s, p + 1, p + Len(ph)) = ph

\* len(s.split())
WordCount(s) ==
    Cardinality({i \in 1..Len(s) :
                    ~IsSpace(s[i]) /\ (i = 1 \/ IsSpace(s[i - 1]))})

\* s.strip()
Strip(s) ==
    LET solid == {i \in 1..Len(s) : ~IsSpace(s[i])}
    IN  IF solid = {} THEN <<>>
        ELSE SubSeq(s, SetMin(solid), SetMax(solid))

\* re.split over the separators that start at the offsets of cuts, each
\* width characters wide: the pieces between them, in order.
Pieces(s, cuts, width) ==
    LET n      == Cardinality(cuts)
        cut(k) == CHOOSE p \in cuts : Cardinality({q \in cuts : q < p}) = k - 1
    IN  [k \in 1..(n + 1) |->
            SubSeq(s, IF k = 1 THEN 1 ELSE cut(k - 1) + width,
                      IF k = n + 1 THEN Len(s) ELSE cut(k) - 1)]

\* The separators of r'(?<=[.!?])\s+(?=[A-Z])' in a text whose whitespace is
\* single spaces: the index of the space.
SentenceCuts(s) ==
    {p \in 2..(Len(s) - 1) :
        s[p] = " " /\ s[p - 1] \in {".", "!", "?"} /\ IsUpper(s[p + 1])}

\* The separators of r'[.;]\s+': the index of the period or semicolon.
ClauseCuts(s) ==
    {p \in 1..(Len(s) - 1) : s[p] \in {".", ";"} /\ s[p + 1] = " "}

\* sum(list, []) for a sequence of sequences.
RECURSIVE Flatten(_)
Flatten(ss) == IF ss = <<>> THEN <<>> ELSE Head(ss) \o Flatten(Tail(ss))

\* The 6-word minimum and the 60-word maximum of a fragment.
MinWords == 6
MaxWords == 60

\* _split_into_sentences on a text without "provided, however" and
\* "notwithstanding" (the placeholders are then never substituted).
_split_into_sentences(txt) ==
    LET sentences == Pieces(txt, SentenceCuts(txt), 1)
        refine(s0) ==
            LET s == Strip(s0)
            IN  IF s = <<>> \/ WordCount(s) < MinWords THEN <<>>
                ELSE IF WordCount(s) > MaxWords
                THEN LET parts == Pieces(s, ClauseCuts(s), 2)
                         strip == [k \in 1..Len(parts) |-> Strip(parts[k])]
                     IN  SelectSeq(strip, LAMBDA p :
                                      p # <<>> /\ WordCount(p) >= MinWords)
                ELSE <<s>>
    IN  Flatten([k \in 1..Len(sentences) |-> refine(sentences[k])])

\* The maximal runs of characters of the set chars, as <<first, last>>.
Runs(s, chars) ==
    LET starts == {a \in 1..Len(s) : s[a] \in chars /\ (a = 1 \/ s[a - 1] \notin chars)}
    IN  {<<a, CHOOSE b \in a..Len(s) :
                 /\ b = Len(s) \/ s[b + 1] \notin chars
                 /\ \A i \in a..b : s[i] \in chars>> : a \in starts}

\* set(re.findall(r'\b\w+\b', sentence_lower))
WordSet(s) == {SubSeq(s, r[1], r[2]) : r \in Runs(s, WordChars)}

\* A variant that looks for the risk words as substrings.
_has_risk_context_Substring(sentence_lower, risk_words) ==
    \E w \in risk_words : Contains(sentence_lower, w)

_has_risk_context(sentence_lower, risk_words) ==
    WordSet(sentence_lower) \cap risk_words # {}

\* The thresholds of _is_boilerplate: runs of 5 or more digits, two of them;
\* sentences of more than 20 characters; a digit ratio above 15 / 100.
DigitRunLen    == 5
DigitRunCount  == 2
RatioMinLen    == 20
RatioPercent   == 15

_is_boilerplate(sentence, exclude_phrases) ==
    LET lower  == str_lower(sentence)
        IsDigit(c) == c \in Digits
        long   == {r \in Runs(sentence, Digits) : r[2] - r[1] + 1 >= DigitRunLen}
        digits == Cardinality({i \in 1..Len(sentence) : IsDigit(sentence[i])})
    IN  \/ \E phrase \in exclude_phrases : Contains(lower, phrase)
        \/ Cardinality(long) >= DigitRunCount
        \/ /\ Len(sentence) > RatioMinLen
           /\ digits * 100 > RatioPercent * Len(sentence)

\* The display limit of _smart_truncate.
MaxDisplay == 280

\* A variant that cuts at the first ". ".
_smart_truncate_FirstPeriod(txt) ==
    IF Len(txt) <= MaxDisplay THEN txt
    ELSE LET head == SubSeq(txt, 1, MaxDisplay)
             ends == {p \in 1..(MaxDisplay - 1) : head[p] = "." /\ head[p + 1] = " "}
         IN  IF ends # {}
             THEN SubSeq(txt, 1, CHOOSE p \in ends : \A q \in ends : p <= q)
             ELSE head \o Str(" [...]")

\* _smart_truncate(text)
_smart_truncate(txt) ==
    IF Len(txt) <= MaxDisplay THEN txt
    ELSE LET head == SubSeq(txt, 1, MaxDisplay)
             ends == {p \in 1..(MaxDisplay - 1) : head[p] = "." /\ head[p + 1] = " "}
         IN  IF ends # {}
             THEN SubSeq(txt, 1, CHOOSE p \in ends : \A q \in ends : p >= q)
             ELSE head \o Str(" [...]")

\* A variant that only removes the whitespace.
Fingerprint_KeepPunctuation(sent_lower) ==
    SelectSeq(sent_lower, LAMBDA c : ~IsSpace(c))

\* re.sub(r'[^a-z]', '', sent_lower)
Fingerprint(sent_lower) == SelectSeq(sent_lower, IsAZ)

\* The shortest fingerprint that is kept.
MinFingerprint == 35

\* The points of a critical and of a high-priority phrase, and the lowest
\* score that is kept.
CriticalPoints == 15
HighPoints     == 10
MinScore       == 10

\* A variant that counts every phrase as a high-priority one.
Score_Flat(found_critical, found_high) ==
    Cardinality(found_critical) * HighPoints + Cardinality(found_high) * HighPoints

\* score = len(found_critical) * 15 + len(found_high) * 10
Score(found_critical, found_high) ==
    Cardinality(found_critical) * CriticalPoints
    + Cardinality(found_high) * HighPoints

\* The number of sentences returned at most.
TopN == 10

\* The four keyword files of backend/keys/, in the order they are loaded.
KeyFiles ==
    <<"critical_phrases.txt", "high_priority_phrases.txt",
      "risk_context_words.txt", "boilerplate_exclude.txt">>

\* The contents of the keyword files as _load_keyword_set returns them
\* (stripped, lower-cased, blank lines dropped).
KeySets ==
    [f \in Range(KeyFiles) |->
        CASE f = "critical_phrases.txt" ->
                {Str("default"), Str("going concern")}
          [] f = "high_priority_phrases.txt" -> {Str("lawsuit")}
          [] f = "risk_context_words.txt" -> {Str("risk"), Str("adverse")}
          [] f = "boilerplate_exclude.txt" -> {Str("safe harbor")}]

\* A variant that reads a missing file as an empty set.
_load_keyword_set_Lenient(filename, present) ==
    IF filename \in present THEN Some(KeySets[filename]) ELSE Some({})

\* _load_keyword_set: Some(set), or None for FileNotFoundError.
_load_keyword_set(filename, present) ==
    IF filename \in present THEN Some(KeySets[filename]) ELSE None

\* ---------------------------------------------------- documents of sentences

\* Two critical phrases and a risk-context word.
S_TwoCritical ==
    Str("The company is in default and going concern risk is high today.")

\* A high-priority phrase and a risk-context word.
S_High ==
    Str("The lawsuit poses an adverse outcome for the entire company this year.")

\* A critical and a high-priority phrase and two risk-context words.
S_Mixed ==
    Str("The lawsuit and the default create adverse risk for the company now.")

\* Two critical phrases and a risk-context word in 29 letters.
S_Short == Str("A default or going concern is a risk.")

\* S_TwoCritical with a hyphen inside its only risk-context word.
S_Hyphen ==
    Str("The company is in default and going concern ri-sk is high today.")

\* S_TwoCritical in capitals and with commas.
S_Upper ==
    Str("THE COMPANY IS IN DEFAULT, AND GOING CONCERN RISK IS HIGH, TODAY.")

\* A clause of 21 words and 112 characters that holds a critical phrase and
\* a risk-context word; tag makes its letters differ.
Clause(tag) ==
    Str("The ") \o tag
    \o Str(" lender may call a default under the credit agreement and that ")
    \o Str("risk could harm our results and our cash")

\* More than 280 characters with two ". " among the first 280.
S_LongTwo ==
    Clause(Str("tenth")) \o Str(". and ") \o Clause(Str("eleventh"))
    \o Str(". and ") \o Str("moreover, that the lawsuit continues for years.")

\* More than 280 characters whose only ". " has its period as the 280th
\* character.
S_LongEdge ==
    Clause(Str("twelfth")) \o Str(", and ") \o Clause(Str("thirteenth"))
    \o Str(", and the lawsuit goes on for eleven years. and so it harms us.")

\* A critical phrase, and risk-context words only inside longer words.
S_Substring ==
    Str("The default brings risky and adversely priced loans to the company.")

\* The k-th of a family of sentences with distinct letters whose scores
\* cycle through 10, 30 and 25.
Numbered(k) ==
    LET base == CASE k % 3 = 1 -> S_High
                  [] k % 3 = 2 -> S_TwoCritical
                  [] OTHER     -> S_Mixed
    IN  <<UpperLetters[k]>> \o Str(" and t") \o SubSeq(base, 2, Len(base))

\* The sentences of a document joined by the whitespace between them.
RECURSIVE JoinSentences(_)
JoinSentences(ss) ==
    IF ss = <<>> THEN <<>>
    ELSE IF Len(ss) = 1 THEN Head(ss)
    ELSE Head(ss) \o Str("  ") \o JoinSentences(Tail(ss))

\* Longest document of sentences that is enumerated in full.
MaxSents == 3

CommonTexts ==
    LET CommonSentences == {S_TwoCritical, S_High, S_Mixed, S_Hyphen, S_Upper}
    IN  {JoinSentences(q) : q \in UNION {[1..n -> CommonSentences] : n \in 0..MaxSents}}

\* Documents with the rarer sentences, and documents of more than TopN
\* sentences that are kept.
RareTexts ==
    LET \* S_TwoCritical with a space inside a critical phrase.
        S_Spaced ==
            Str("The company is in de fault and going concern risk is high today.")

        \* S_High with one more critical phrase at its end.
        S_HighPlus ==
            Str("The lawsuit poses an adverse outcome for the entire company this year default.")

        \* A boilerplate-exclusion phrase.
        S_Harbor ==
            Str("This safe harbor statement covers default risk for the whole company today.")

        \* Two runs of five digits.
        S_Digits ==
            Str("Default risk 12345 and 67890 appear in the filing tables here.")

        \* No phrase of the lexicon.
        S_Plain == Str("The annual meeting of the company was held in the city hall.")

        \* Fewer than six words.
        S_Few == Str("Default risk is adverse.")

        \* More than 280 characters in 60 words or fewer, cut at its last ". ".
        S_LongCut ==
            Clause(Str("first")) \o Str(". and ") \o Clause(Str("second"))
            \o Str(", and, ") \o Str("moreover, that the lawsuit continues for years.")

        \* More than 280 characters in 60 words or fewer, without ". ".
        S_LongHard ==
            Clause(Str("third")) \o Str(", and ") \o Clause(Str("fourth"))
            \o Str(", and, ") \o Str("moreover, that the lawsuit continues for years.")

        \* More than 280 characters in 60 words or fewer whose phrases and
        \* risk-context words all come after its first ". ".
        S_LongLate ==
            Str("The lenders wrote to the board. and ") \o Clause(Str("eighth"))
            \o Str(", and ") \o Clause(Str("ninth"))
            \o Str(", and so the lawsuit goes on.")

        \* More than 60 words, with a semicolon and a period inside.
        S_Over60 ==
            Clause(Str("fifth")) \o Str("; and ") \o Clause(Str("sixth"))
            \o Str(". and ") \o Clause(Str("seventh")) \o Str(".")

        \* A critical phrase and no risk-context word.
        S_NoContext ==
            Str("A default without any lender waiver would hurt the whole company badly.")
    IN  {JoinSentences(q) : q \in
            { <<S_Spaced, S_TwoCritical>>,
              <<S_NoContext, S_TwoCritical, S_High, S_HighPlus>>,
              <<S_NoContext, S_Short, S_TwoCritical>>, <<S_Short, S_NoContext>>,
              <<S_Harbor, S_Digits, S_Plain, S_Few, S_Mixed>>,
              <<S_LongCut, S_LongHard>>, <<S_Over60, S_High>>,
              <<S_LongLate, S_High>>, <<S_Substring, S_High>>,
              <<S_LongTwo, S_LongEdge>>,
              [k \in 1..(TopN + 1) |-> Numbered(k)],
              [k \in 1..(TopN + 2) |-> Numbered(k)] }}

AllKeyFiles == Range(KeyFiles)

\* The runs of find_dangerous_sentences: a document and the keyword files
\* that exist in backend/keys/.
ExtractRuns ==
    ((CommonTexts \cup RareTexts) \X {AllKeyFiles})
    \cup ({JoinSentences(<<S_TwoCritical, S_High>>)}
          \X {AllKeyFiles \ {f} : f \in AllKeyFiles})

\* One iteration of "for sent in sentences": the new <<seen_fingerprints,
\* scored>>. An entry of scored is (score, display); sent is the index of
\* the sentence it was made from and fingerprint its fingerprint, kept to
\* state the properties of the result.
ScoreOne(sent, at, lexicon, seen, scored_) ==
    LET sent_lower     == str_lower(sent)
        found_critical == {ph \in lexicon[1] : Contains(sent_lower, ph)}
        found_high     == {ph \in lexicon[2] : Contains(sent_lower, ph)}
        fingerprint    == Fingerprint(sent_lower)
        score          == Score(found_critical, found_high)
    IN  IF WordCount(sent) < MinWords THEN <<seen, scored_>>
        ELSE IF _is_boilerplate(sent, lexicon[4]) THEN <<seen, scored_>>
        ELSE IF found_critical = {} /\ found_high = {} THEN <<seen, scored_>>
        ELSE IF ~_has_risk_context(sent_lower, lexicon[3]) THEN <<seen, scored_>>
        ELSE IF Len(fingerprint) < MinFingerprint \/ fingerprint \in seen
        THEN <<seen, scored_>>
        ELSE IF score < MinScore THEN <<seen \cup {fingerprint}, scored_>>
        ELSE <<seen \cup {fingerprint},
               Append(scored_, [score |-> score, display |-> _smart_truncate(sent),
                                sent |-> at, fingerprint |-> fingerprint])>>

\* A variant that sorts ascending.
RankKey_Ascending(x) == <<x.score, 0>>

\* scored.sort(key=lambda x: x[0], reverse=True): a stable sort that keeps
\* the order of equal scores.
RankKey(x) == <<0 - x.score, 0>>

\* ------------------------------------------------------ working directory

\* Threads of the server's thread pool that run analyze_ticker (a "def"
\* endpoint), and requests one thread serves one after another.
NumWorkers == 2
MaxRequests == 2

Workers == 1..NumWorkers

\* The working directory of the process before the first request.
StartDir == <<0, 0>>

\* The directory tempfile.TemporaryDirectory() makes for the n-th request
\* of worker t: a fresh name each time.
TempDir(t, n) == <<t, n>>

\* ------------------------------------------------------------------- state

VARIABLES
    pc,           \* position in EventDetector.__init__ / detect_events
    events,       \* self.lookup.events
    text,         \* the document text
    patterns,     \* self.patterns
    raw_matches,  \* raw_matches
    idx,          \* position of the overlap loop in raw_matches
    kept,         \* kept
    occupied,     \* occupied
    detected,     \* the returned list (detected_events of analyze_ticker)
    fpc,          \* position in the per-filing part of analyze_ticker
    full_text,    \* the date-like substrings of full_text, in document order
    filing_date,  \* filing_date
    window_days,  \* window_days
    today,        \* datetime.now().date()
    loop,         \* index of the current for loop of analyze_ticker
    candidates,   \* candidates of _parse_date_nearest_to_span
    parsed,       \* parsed
    enriched_events,  \* enriched_events
    grouped,      \* grouped, as the list of its values
    grouped_list, \* grouped_list
    pass,         \* 1, or 2 when the same occurrences are aggregated again
    first_grouped_list,  \* grouped_list of the first pass
    xpc,          \* position in find_dangerous_sentences and after its call
    key_present,  \* the keyword files that exist in backend/keys/
    sec_document, \* sec_document
    lexicon,      \* the keyword sets loaded so far, in the order of KeyFiles
    file_reads,   \* number of files opened by the call
    sentences,    \* sentences
    sidx,         \* index of the current sentence of the scoring loop
    seen_fingerprints,  \* seen_fingerprints
    scored,       \* scored
    dangerous,    \* the returned list (dangerous of analyze_ticker)
    outcome,      \* what analyze_ticker did after the call
    cwd,          \* the working directory of the process
    dirs,         \* the directories that exist
    tpc,          \* position of each worker in analyze_ticker
    original_cwd, \* original_cwd of each worker's request
    temp_dir,     \* temp_dir of each worker's request
    served,       \* number of requests each worker has completed
    response      \* status of the last response of each worker

detect_vars == <<pc, events, text, patterns, raw_matches, idx, kept, occupied>>

filing_vars == <<fpc, full_text, filing_date, window_days, today, loop,
                 candidates, parsed, enriched_events, grouped, grouped_list,
                 pass, first_grouped_list>>

extract_vars == <<xpc, key_present, sec_document, lexicon, file_reads, sentences,
                  sidx, seen_fingerprints, scored, dangerous, outcome>>

cwd_vars == <<cwd, dirs, tpc, original_cwd, temp_dir, served, response>>

vars == <<detect_vars, detected, filing_vars, extract_vars, cwd_vars>>

\* The per-filing part has not started.
FilingIdle ==
    /\ fpc = "idle"
    /\ full_text = <<>>
    /\ filing_date = NotAvailable
    /\ window_days = 365
    /\ today = 1
    /\ loop = 1
    /\ candidates = <<>>
    /\ parsed = None
    /\ enriched_events = <<>>
    /\ grouped = <<>>
    /\ grouped_list = <<>>
    /\ pass = 1
    /\ first_grouped_list = <<>>

\* No request is being served.
CwdIdle ==
    /\ cwd = StartDir
    /\ dirs = {StartDir}
    /\ tpc = [t \in Workers |-> "idle"]
    /\ original_cwd = [t \in Workers |-> None]
    /\ temp_dir = [t \in Workers |-> None]
    /\ served = [t \in Workers |-> 0]
    /\ response = [t \in Workers |-> "none"]

\* find_dangerous_sentences has not been called.
ExtractIdle ==
    /\ xpc = "idle"
    /\ key_present = {}
    /\ sec_document = <<>>
    /\ lexicon = <<>>
    /\ file_reads = 0
    /\ sentences = <<>>
    /\ sidx = 1
    /\ seen_fingerprints = {}
    /\ scored = <<>>
    /\ dangerous = <<>>
    /\ outcome = "none"

Init ==
    /\ pc = "init"
    /\ events \in Catalogs
    /\ text \in Texts
    /\ patterns = <<>>
    /\ raw_matches = <<>>
    /\ idx = 1
    /\ kept = <<>>
    /\ occupied = <<>>
    /\ detected = <<>>
    /\ FilingIdle
    /\ ExtractIdle
    /\ CwdIdle

\* EventDetector._compile_patterns
CompilePatterns ==
    /\ pc = "init"
    /\ patterns' = CompileTable(events)
    /\ pc' = "compiled"
    /\ UNCHANGED <<events, text, raw_matches, idx, kept, occupied, detected>>
    /\ UNCHANGED <<filing_vars, extract_vars, cwd_vars>>

\* detect_events: the collection loops.
CollectRawMatches ==
    /\ pc = "compiled"
    /\ raw_matches' = CollectMatches(patterns, text)
    /\ pc' = "collected"
    /\ UNCHANGED <<events, text, patterns, idx, kept, occupied, detected>>
    /\ UNCHANGED <<filing_vars, extract_vars, cwd_vars>>

\* detect_events: raw_matches.sort(...), kept = [], occupied = [].
SortRawMatches ==
    /\ pc = "collected"
    /\ raw_matches' = StableSort(raw_matches,
                                 [i \in 1..Len(raw_matches) |-> RawSortKey(raw_matches[i])])
    /\ kept' = <<>>
    /\ occupied' = <<>>
    /\ idx' = 1
    /\ pc' = "resolving"
    /\ UNCHANGED <<events, text, patterns, detected>>
    /\ UNCHANGED <<filing_vars, extract_vars, cwd_vars>>

\* detect_events: one iteration of "for r in raw_matches".
ResolveOverlap ==
    /\ pc = "resolving"
    /\ idx <= Len(raw_matches)
    /\ LET r == raw_matches[idx]
       IN  IF OverlapsAny(r.match_span, occupied)
           THEN UNCHANGED <<kept, occupied>>
           ELSE /\ kept' = Append(kept, r)
                /\ occupied' = Append(occupied, r.match_span)
    /\ idx' = idx + 1
    /\ UNCHANGED <<pc, events, text, patterns, raw_matches, detected>>
    /\ UNCHANGED <<filing_vars, extract_vars, cwd_vars>>

\* detect_events: detected = sorted(kept, key=start); return detected.
ReturnDetected ==
    /\ pc = "resolving"
    /\ idx > Len(raw_matches)
    /\ detected' = StableSort(kept, [i \in 1..Len(kept) |-> StartSortKey(kept[i])])
    /\ pc' = "done"
    /\ UNCHANGED <<events, text, patterns, raw_matches, idx, kept, occupied>>
    /\ UNCHANGED <<filing_vars, extract_vars, cwd_vars>>

Next ==
    \/ CompilePatterns
    \/ CollectRawMatches
    \/ SortRawMatches
    \/ ResolveOverlap
    \/ ReturnDetected

Spec == Init /\ [][Next]_vars

\* ------------------------------------------------ analyze_ticker, per filing

\* One filing after detect_events returned and metadata.json was read.
InitFiling ==
    /\ pc = "done"
    /\ events = <<>>
    /\ text = <<>>
    /\ patterns = <<>>
    /\ raw_matches = <<>>
    /\ idx = 1
    /\ kept = <<>>
    /\ occupied = <<>>
    /\ \E sc \in Scenarios :
          /\ full_text = sc[1].dates
          /\ detected = sc[1].occs
          /\ filing_date = sc[2].filing
          /\ window_days = sc[2].window
          /\ today = sc[2].now
    /\ fpc = "enrich"
    /\ loop = 1
    /\ candidates = <<>>
    /\ parsed = None
    /\ enriched_events = <<>>
    /\ grouped = <<>>
    /\ grouped_list = <<>>
    /\ pass = 1
    /\ first_grouped_list = <<>>
    /\ ExtractIdle
    /\ CwdIdle

\* _parse_date_nearest_to_span for the next detected event.
ParseDateNearest ==
    /\ fpc = "enrich"
    /\ loop <= Len(detected)
    /\ candidates' = WindowFilter(_find_dates_in_text(full_text),
                                  filing_date, window_days)
    /\ parsed' = _parse_date_nearest_to_span(full_text, detected[loop].match_span,
                                             filing_date, window_days)
    /\ fpc' = "parsed"
    /\ UNCHANGED <<full_text, filing_date, window_days, today, loop,
                   enriched_events, grouped, grouped_list, pass, first_grouped_list>>
    /\ UNCHANGED <<detect_vars, detected, extract_vars, cwd_vars>>

\* The rest of one iteration of "for ev in detected_events".
EnrichEvent ==
    /\ fpc = "parsed"
    /\ LET ev          == detected[loop]
           event_start == EventStart(parsed, filing_date)
       IN  enriched_events' = Append(enriched_events, Enriched(ev, event_start, today))
    /\ loop' = loop + 1
    /\ fpc' = "enrich"
    /\ UNCHANGED <<full_text, filing_date, window_days, today, candidates, parsed,
                   grouped, grouped_list, pass, first_grouped_list>>
    /\ UNCHANGED <<detect_vars, detected, extract_vars, cwd_vars>>

\* grouped = {}
StartGrouping ==
    /\ fpc = "enrich"
    /\ loop > Len(detected)
    /\ grouped' = <<>>
    /\ loop' = 1
    /\ fpc' = "group"
    /\ UNCHANGED <<full_text, filing_date, window_days, today, candidates, parsed,
                   enriched_events, grouped_list, pass, first_grouped_list>>
    /\ UNCHANGED <<detect_vars, detected, extract_vars, cwd_vars>>

\* One iteration of "for ev in enriched_events".
GroupEvent ==
    /\ fpc = "group"
    /\ loop <= Len(enriched_events)
    /\ grouped' = AddToGroups(grouped, enriched_events[loop])
    /\ loop' = loop + 1
    /\ UNCHANGED <<fpc, full_text, filing_date, window_days, today, candidates,
                   parsed, enriched_events, grouped_list, pass, first_grouped_list>>
    /\ UNCHANGED <<detect_vars, detected, extract_vars, cwd_vars>>

\* grouped_list = []
StartFinalize ==
    /\ fpc = "group"
    /\ loop > Len(enriched_events)
    /\ grouped_list' = <<>>
    /\ loop' = 1
    /\ fpc' = "finalize"
    /\ UNCHANGED <<full_text, filing_date, window_days, today, candidates, parsed,
                   enriched_events, grouped, pass, first_grouped_list>>
    /\ UNCHANGED <<detect_vars, detected, extract_vars, cwd_vars>>

\* One iteration of "for et, g in grouped.items()".
FinalizeGroup ==
    /\ fpc = "finalize"
    /\ loop <= Len(grouped)
    /\ grouped_list' = Append(grouped_list, FinalGroup(grouped[loop], today))
    /\ loop' = loop + 1
    /\ UNCHANGED <<fpc, full_text, filing_date, window_days, today, candidates,
                   parsed, enriched_events, grouped, pass, first_grouped_list>>
    /\ UNCHANGED <<detect_vars, detected, extract_vars, cwd_vars>>

\* The result entry of the filing is assembled.
Report ==
    /\ fpc = "finalize"
    /\ loop > Len(grouped)
    /\ fpc' = "reported"
    /\ UNCHANGED <<full_text, filing_date, window_days, today, loop, candidates,
                   parsed, enriched_events, grouped, grouped_list, pass,
                   first_grouped_list>>
    /\ UNCHANGED <<detect_vars, detected, extract_vars, cwd_vars>>

\* The same enriched events are aggregated a second time.
AggregateAgain ==
    /\ fpc = "reported"
    /\ pass = 1
    /\ pass' = 2
    /\ first_grouped_list' = grouped_list
    /\ grouped' = <<>>
    /\ loop' = 1
    /\ fpc' = "group"
    /\ UNCHANGED <<full_text, filing_date, window_days, today, candidates, parsed,
                   enriched_events, grouped_list>>
    /\ UNCHANGED <<detect_vars, detected, extract_vars, cwd_vars>>

NextFiling ==
    \/ ParseDateNearest
    \/ EnrichEvent
    \/ StartGrouping
    \/ GroupEvent
    \/ StartFinalize
    \/ FinalizeGroup
    \/ Report
    \/ AggregateAgain

SpecFiling == InitFiling /\ [][NextFiling]_vars

\* -------------------------------------------- find_dangerous_sentences

\* analyze_ticker calls find_dangerous_sentences(full_text) for a filing.
InitExtract ==
    /\ pc = "compiled"
    /\ events = <<>>
    /\ text = <<>>
    /\ patterns = <<>>
    /\ raw_matches = <<>>
    /\ idx = 1
    /\ kept = <<>>
    /\ occupied = <<>>
    /\ detected = <<>>
    /\ FilingIdle
    /\ xpc = "load"
    /\ \E run \in ExtractRuns :
          /\ sec_document = run[1]
          /\ key_present = run[2]
    /\ lexicon = <<>>
    /\ file_reads = 0
    /\ sentences = <<>>
    /\ sidx = 1
    /\ seen_fingerprints = {}
    /\ scored = <<>>
    /\ dangerous = <<>>
    /\ outcome = "none"
    /\ CwdIdle

\* One _load_keyword_set call of the try block; FileNotFoundError becomes
\* RuntimeError("Missing keyword file: ...") and ends the call.
LoadKeywordSet ==
    /\ xpc = "load"
    /\ LET filename == KeyFiles[Len(lexicon) + 1]
           loaded   == _load_keyword_set(filename, key_present)
       IN  IF loaded = None
           THEN /\ xpc' = "raised"
                /\ UNCHANGED <<lexicon, file_reads>>
           ELSE /\ lexicon' = Append(lexicon, loaded[1])
                /\ file_reads' = file_reads + 1
                /\ xpc' = IF Len(lexicon) + 1 = Len(KeyFiles) THEN "split" ELSE "load"
    /\ UNCHANGED <<key_present, sec_document, sentences, sidx, seen_fingerprints,
                   scored, dangerous, outcome>>
    /\ UNCHANGED <<detect_vars, detected, filing_vars, cwd_vars>>

\* clean_text = _clean_sec_text(sec_document); sentences =
\* _split_into_sentences(clean_text); seen_fingerprints = set(); scored = [].
CleanAndSplit ==
    /\ xpc = "split"
    /\ sentences' = _split_into_sentences(_clean_sec_text(sec_document))
    /\ sidx' = 1
    /\ seen_fingerprints' = {}
    /\ scored' = <<>>
    /\ xpc' = "score"
    /\ UNCHANGED <<key_present, sec_document, lexicon, file_reads, dangerous, outcome>>
    /\ UNCHANGED <<detect_vars, detected, filing_vars, cwd_vars>>

\* One iteration of "for sent in sentences".
ScoreSentence ==
    /\ xpc = "score"
    /\ sidx <= Len(sentences)
    /\ LET after == ScoreOne(sentences[sidx], sidx, lexicon,
                             seen_fingerprints, scored)
       IN  /\ seen_fingerprints' = after[1]
           /\ scored' = after[2]
    /\ sidx' = sidx + 1
    /\ UNCHANGED <<xpc, key_present, sec_document, lexicon, file_reads, sentences,
                   dangerous, outcome>>
    /\ UNCHANGED <<detect_vars, detected, filing_vars, cwd_vars>>

\* scored.sort(...); return [s for _, s in scored[:10]]
RankAndReturn ==
    /\ xpc = "score"
    /\ sidx > Len(sentences)
    /\ LET ranked == StableSort(scored, [k \in 1..Len(scored) |-> RankKey(scored[k])])
           top    == SubSeq(ranked, 1, IF Len(ranked) < TopN THEN Len(ranked) ELSE TopN)
       IN  /\ scored' = ranked
           /\ dangerous' = [k \in 1..Len(top) |-> top[k].display]
    /\ xpc' = "returned"
    /\ UNCHANGED <<key_present, sec_document, lexicon, file_reads, sentences, sidx,
                   seen_fingerprints, outcome>>
    /\ UNCHANGED <<detect_vars, detected, filing_vars, cwd_vars>>

\* analyze_ticker: detected_events = detector.detect_events(full_text), the
\* statement after the call of find_dangerous_sentences.
CallDetectEvents ==
    /\ xpc = "returned"
    /\ outcome = "none"
    /\ outcome' = "detect_events"
    /\ UNCHANGED <<xpc, key_present, sec_document, lexicon, file_reads, sentences,
                   sidx, seen_fingerprints, scored, dangerous>>
    /\ UNCHANGED <<detect_vars, detected, filing_vars, cwd_vars>>

\* analyze_ticker: "except Exception as e" appends the error entry of the
\* filing and continues with the next filing.
RecordFilingError ==
    /\ xpc = "raised"
    /\ outcome = "none"
    /\ outcome' = "error_entry"
    /\ UNCHANGED <<xpc, key_present, sec_document, lexicon, file_reads, sentences,
                   sidx, seen_fingerprints, scored, dangerous>>
    /\ UNCHANGED <<detect_vars, detected, filing_vars, cwd_vars>>

NextExtract ==
    \/ LoadKeywordSet
    \/ CleanAndSplit
    \/ ScoreSentence
    \/ RankAndReturn
    \/ CallDetectEvents
    \/ RecordFilingError

SpecExtract == InitExtract /\ [][NextExtract]_vars

\* ------------------------------------- analyze_ticker: working directory

\* The server process has started and no request has arrived.
InitCwd ==
    /\ pc = "init"
    /\ events = <<>>
    /\ text = <<>>
    /\ patterns = <<>>
    /\ raw_matches = <<>>
    /\ idx = 1
    /\ kept = <<>>
    /\ occupied = <<>>
    /\ detected = <<>>
    /\ FilingIdle
    /\ ExtractIdle
    /\ CwdIdle

\* with tempfile.TemporaryDirectory() as temp_dir
EnterTemporaryDirectory(t) ==
    /\ tpc[t] = "idle"
    /\ served[t] < MaxRequests
    /\ temp_dir' = [temp_dir EXCEPT ![t] = Some(TempDir(t, served[t] + 1))]
    /\ dirs' = dirs \cup {TempDir(t, served[t] + 1)}
    /\ original_cwd' = [original_cwd EXCEPT ![t] = None]
    /\ response' = [response EXCEPT ![t] = "none"]
    /\ tpc' = [tpc EXCEPT ![t] = "getcwd"]
    /\ UNCHANGED <<cwd, served>>
    /\ UNCHANGED <<detect_vars, detected, filing_vars, extract_vars>>

\* original_cwd = os.getcwd(), before the try block: FileNotFoundError when
\* the working directory has been deleted leaves the with block at once.
GetCwd(t) ==
    /\ tpc[t] = "getcwd"
    /\ IF cwd \in dirs
       THEN /\ original_cwd' = [original_cwd EXCEPT ![t] = Some(cwd)]
            /\ tpc' = [tpc EXCEPT ![t] = "chdir"]
            /\ UNCHANGED response
       ELSE /\ response' = [response EXCEPT ![t] = "500"]
            /\ tpc' = [tpc EXCEPT ![t] = "cleanup"]
            /\ UNCHANGED original_cwd
    /\ UNCHANGED <<cwd, dirs, temp_dir, served>>
    /\ UNCHANGED <<detect_vars, detected, filing_vars, extract_vars>>

\* os.chdir(temp_dir)
ChdirTemp(t) ==
    /\ tpc[t] = "chdir"
    /\ cwd' = temp_dir[t][1]
    /\ tpc' = [tpc EXCEPT ![t] = "work"]
    /\ UNCHANGED <<dirs, original_cwd, temp_dir, served, response>>
    /\ UNCHANGED <<detect_vars, detected, filing_vars, extract_vars>>

\* The body of the try block: the download and the filing loop. It ends in
\* the result, or in an exception (the HTTPException for an unknown ticker
\* included) that "except Exception" turns into status 500.
ProcessFilings(t) ==
    /\ tpc[t] = "work"
    /\ \E status \in {"200", "500"} :
          response' = [response EXCEPT ![t] = status]
    /\ tpc' = [tpc EXCEPT ![t] = "finally"]
    /\ UNCHANGED <<cwd, dirs, original_cwd, temp_dir, served>>
    /\ UNCHANGED <<detect_vars, detected, filing_vars, extract_vars>>

\* finally: os.chdir(original_cwd); FileNotFoundError when that directory
\* has been deleted, and the working directory stays where it is.
RestoreCwd(t) ==
    /\ tpc[t] = "finally"
    /\ IF original_cwd[t][1] \in dirs
       THEN /\ cwd' = original_cwd[t][1]
            /\ UNCHANGED response
       ELSE /\ response' = [response EXCEPT ![t] = "500"]
            /\ UNCHANGED cwd
    /\ tpc' = [tpc EXCEPT ![t] = "cleanup"]
    /\ UNCHANGED <<dirs, original_cwd, temp_dir, served>>
    /\ UNCHANGED <<detect_vars, detected, filing_vars, extract_vars>>

\* The end of the with block removes temp_dir; the request is complete.
CleanupTemporaryDirectory(t) ==
    /\ tpc[t] = "cleanup"
    /\ dirs' = dirs \ {temp_dir[t][1]}
    /\ served' = [served EXCEPT ![t] = @ + 1]
    /\ tpc' = [tpc EXCEPT ![t] = "idle"]
    /\ UNCHANGED <<cwd, original_cwd, temp_dir, response>>
    /\ UNCHANGED <<detect_vars, detected, filing_vars, extract_vars>>

NextCwd ==
    \E t \in Workers :
       \/ EnterTemporaryDirectory(t)
       \/ GetCwd(t)
       \/ ChdirTemp(t)
       \/ ProcessFilings(t)
       \/ RestoreCwd(t)
       \/ CleanupTemporaryDirectory(t)

SpecCwd == InitCwd /\ [][NextCwd]_vars

\* ------------------------------------------------------ detection: claims

\* Two spans are disjoint in the sense of the contract: e1 <= s2 or e2 <= s1.
Disjoint(sp1, sp2) == sp1[2] <= sp2[1] \/ sp2[2] <= sp1[1]

\* Some character offset lies in both spans.
CoverSamePosition(sp1, sp2) ==
    \E q \in 0..Len(text) : sp1[1] <= q /\ q < sp1[2] /\ sp2[1] <= q /\ sp2[2] > q

\* C1: no two occurrences of the list returned by detect_events overlap
\* (and none of the occurrences kept so far by the greedy loop do).
C1_NonOverlap ==
    /\ \A i, j \in 1..Len(kept) :
          i # j => Disjoint(kept[i].match_span, kept[j].match_span)
    /\ pc = "done" =>
          \A i, j \in 1..Len(detected) :
             i # j => Disjoint(detected[i].match_span, detected[j].match_span)

\* C1 witness: a result of two or more occurrences from which the overlap
\* resolution dropped at least one raw match.
C1_Witness ==
    /\ pc = "done"
    /\ Len(detected) >= 2
    /\ Len(raw_matches) > Len(detected)

\* The raw match at index i is longer than the one at j and they cover a
\* common position.
LongerSharing(i, j) ==
    /\ SpanLen(raw_matches[i].match_span) > SpanLen(raw_matches[j].match_span)
    /\ CoverSamePosition(raw_matches[i].match_span, raw_matches[j].match_span)

\* The occurrence r is displaced: the result holds an occurrence that
\* overlaps r and is at least as long.
Displaced(r) ==
    \E d \in Range(detected) :
       /\ d # r
       /\ Overlaps(r.match_span, d.match_span)
       /\ SpanLen(d.match_span) >= SpanLen(r.match_span)

\* C2 as stated: of two raw matches of different length covering the same
\* position the longer is in the result, whatever other raw matches exist.
C2_LongerAlwaysKept ==
    pc = "done" =>
       \A i, j \in 1..Len(raw_matches) :
          LongerSharing(i, j) => raw_matches[i] \in Range(detected)

\* C2 amended: of two raw matches of different length covering the same
\* position the shorter is never kept together with the longer, and the
\* longer is kept unless the result holds another occurrence that overlaps
\* it and is at least as long.
C2_LongerKeptUnlessDisplaced ==
    pc = "done" =>
       \A i, j \in 1..Len(raw_matches) :
          LongerSharing(i, j) =>
             \/ /\ raw_matches[i] \in Range(detected)
                /\ raw_matches[j] \notin Range(detected)
             \/ /\ raw_matches[i] \notin Range(detected)
                /\ Displaced(raw_matches[i])

\* C2 witness: a longer and a shorter raw match share a position, the longer
\* is in the result and the shorter is not.
C2_Witness ==
    /\ pc = "done"
    /\ \E i, j \in 1..Len(raw_matches) :
          /\ LongerSharing(i, j)
          /\ raw_matches[i] \in Range(detected)
          /\ raw_matches[j] \notin Range(detected)

\* The raw match at i is of explicit origin, the one at j of keyword origin,
\* they are equally long and overlap.
ExplicitKeywordTie(i, j) ==
    /\ raw_matches[i].pattern_source = "regex"
    /\ raw_matches[j].pattern_source = "keyword"
    /\ SpanLen(raw_matches[i].match_span) = SpanLen(raw_matches[j].match_span)
    /\ Overlaps(raw_matches[i].match_span, raw_matches[j].match_span)

\* C3 as stated: of two equally long overlapping raw matches, one explicit
\* and one keyword, the explicit one is in the result and the keyword one
\* is not.
C3_ExplicitAlwaysKept ==
    pc = "done" =>
       \A i, j \in 1..Len(raw_matches) :
          ExplicitKeywordTie(i, j) =>
             /\ raw_matches[i] \in Range(detected)
             /\ raw_matches[j] \notin Range(detected)

\* C3 amended: the explicit one is kept and the keyword one is not, unless
\* the explicit one is itself displaced by an overlapping occurrence of the
\* result that is longer, or equally long and also of explicit origin.
C3_ExplicitKeptUnlessDisplaced ==
    pc = "done" =>
       \A i, j \in 1..Len(raw_matches) :
          ExplicitKeywordTie(i, j) =>
             \/ /\ raw_matches[i] \in Range(detected)
                /\ raw_matches[j] \notin Range(detected)
             \/ /\ raw_matches[i] \notin Range(detected)
                /\ \E d \in Range(detected) :
                      /\ Overlaps(raw_matches[i].match_span, d.match_span)
                      /\ \/ SpanLen(d.match_span) > SpanLen(raw_matches[i].match_span)
                         \/ /\ SpanLen(d.match_span) = SpanLen(raw_matches[i].match_span)
                            /\ d.pattern_source = "regex"

\* C3 witness: an explicit and a keyword raw match tie, and the explicit one
\* is the one in the result.
C3_Witness ==
    /\ pc = "done"
    /\ \E i, j \in 1..Len(raw_matches) :
          /\ ExplicitKeywordTie(i, j)
          /\ raw_matches[i] \in Range(detected)
          /\ raw_matches[j] \notin Range(detected)

\* C4: the returned list holds the kept occurrences in ascending order of
\* span start, whatever the order in which they were kept.
C4_SortedByStart ==
    pc = "done" =>
       /\ Len(detected) = Len(kept)
       /\ Range(detected) = Range(kept)
       /\ \A i, j \in 1..Len(detected) :
             i < j => detected[i].match_span[1] <= detected[j].match_span[1]

\* C4 witness: the kept order differs from the returned order.
C4_Witness ==
    /\ pc = "done"
    /\ Len(detected) >= 2
    /\ detected # kept

\* C5 as stated: every occurrence created by detection has a span with
\* 0 <= start < end <= length(text).
C5_SpansNonEmptyInBounds ==
    pc = "done" =>
       \A r \in Range(raw_matches) \cup Range(detected) :
          /\ 0 <= r.match_span[1]
          /\ r.match_span[1] < r.match_span[2]
          /\ r.match_span[2] <= Len(text)

\* The identifiers of the compiled table.
TableIds == {patterns[k].event_type : k \in 1..Len(patterns)}

\* The event definition yields at least one valid matcher.
YieldsMatcher(cfg) ==
    \/ cfg.keywords # <<>>
    \/ \E k \in 1..Len(cfg.regex_patterns) : cfg.regex_patterns[k].kind # "bad"

\* C6: after compilation an event type is in the table iff it yields a valid
\* matcher; its entry holds the keyword matcher (when it has keywords) and
\* every valid explicit pattern, and no invalid one; and no raw match or
\* returned occurrence names an event type that is absent from the table.
C6_FaultTolerantCompilation ==
    pc # "init" =>
       /\ \A e \in 1..Len(events) :
             events[e].id \in TableIds <=> YieldsMatcher(events[e])
       /\ \A k \in 1..Len(patterns) :
             \E e \in 1..Len(events) :
                LET cfg == events[e]
                    compiled == Range(patterns[k].patterns)
                IN  /\ cfg.id = patterns[k].event_type
                    /\ \A x \in 1..Len(cfg.regex_patterns) :
                          cfg.regex_patterns[x].kind # "bad" <=>
                             [re |-> cfg.regex_patterns[x], source |-> "regex"]
                                \in compiled
                    /\ cfg.keywords # <<>> <=>
                          [re |-> KwRe(cfg.keywords), source |-> "keyword"]
                             \in compiled
       /\ \A r \in Range(raw_matches) \cup Range(detected) :
             r.event_type \in TableIds

\* C6 witness: an event type whose invalid pattern was dropped is detected
\* through its other explicit pattern, while another event type is absent
\* from the table.
C6_Witness ==
    /\ pc = "done"
    /\ \E e \in 1..Len(events) : events[e].id \notin TableIds
    /\ \E e \in 1..Len(events) :
          /\ \E x \in 1..Len(events[e].regex_patterns) :
                events[e].regex_patterns[x].kind = "bad"
          /\ \E d \in Range(detected) :
                d.event_type = events[e].id /\ d.pattern_source = "regex"

\* --------------------------------------------------- per filing: claims

\* The date candidates of the document before window filtering.
AllCandidates == _find_dates_in_text(full_text)

\* C7: when the filing date is present (it parses), a date candidate d
\* survives window filtering iff filingDate - windowDays <= d and
\* d <= filingDate + windowDays; with filing date 2023-01-10 and a window of
\* 30 days, 2022-11-01 does not survive and 2023-01-15 does.
C7_WindowInclusive ==
    (fpc = "parsed" /\ StrpTime(filing_date) # None) =>
       LET f == StrpTime(filing_date)[1]
       IN  /\ Range(candidates) \subseteq Range(AllCandidates)
           /\ \A c \in Range(AllCandidates) :
                 c \in Range(candidates) <=>
                    (f - window_days <= c.d /\ c.d <= f + window_days)
           /\ (filing_date = Iso(2023, 1, 10) /\ window_days = 30) =>
                 \A c \in Range(AllCandidates) :
                    /\ c.d = ToOrdinal(2022, 11, 1) => c \notin Range(candidates)
                    /\ c.d = ToOrdinal(2023, 1, 15) => c \in Range(candidates)

\* C7 witness: filing date 2023-01-10, window 30, a document with both
\* 2022-11-01 and 2023-01-15, of which only 2023-01-15 survived.
C7_Witness ==
    /\ fpc = "parsed"
    /\ filing_date = Iso(2023, 1, 10)
    /\ window_days = 30
    /\ \E c \in Range(AllCandidates) : c.d = ToOrdinal(2022, 11, 1)
    /\ \E c \in Range(AllCandidates) : c.d = ToOrdinal(2023, 1, 15)
    /\ candidates # <<>>
    /\ \A c \in Range(candidates) : c.d = ToOrdinal(2023, 1, 15)

\* The state is one of the runs on the recall sentence with filing date
\* 2023-03-01 and a window of 30 days.
RecallScenario ==
    /\ full_text = RecallDoc.dates
    /\ detected = RecallDoc.occs
    /\ filing_date = Iso(2023, 3, 1)
    /\ window_days = 30

\* C8: an enriched occurrence with a start date and a T* has eventEndsOn =
\* eventStartedOn + T* days and daysRemaining = eventEndsOn - today; the
\* recall sentence resolves to 2023-03-01 and 2023-05-30.
C8_EndIsStartPlusTStar ==
    /\ \A e \in Range(enriched_events) :
          (e.event_started_on # None /\ e.T_star_days # None) =>
             LET start == ToOrdinal(e.event_started_on[1][1],
                                    e.event_started_on[1][2],
                                    e.event_started_on[1][3])
             IN  /\ e.event_ends_on = Some(FromOrdinal(start + e.T_star_days[1]))
                 /\ e.days_remaining = Some(start + e.T_star_days[1] - today)
    /\ (RecallScenario /\ enriched_events # <<>>) =>
          /\ enriched_events[1].event_started_on = Some(<<2023, 3, 1>>)
          /\ enriched_events[1].event_ends_on = Some(<<2023, 5, 30>>)
          /\ enriched_events[1].days_remaining
                = Some(ToOrdinal(2023, 5, 30) - today)

\* C8 witness: the recall sentence has been resolved.
C8_Witness ==
    /\ RecallScenario
    /\ enriched_events # <<>>
    /\ enriched_events[1].event_ends_on = Some(<<2023, 5, 30>>)

\* The enriched events of an event type.
OfType(et) == {k \in 1..Len(enriched_events) : enriched_events[k].event_type = et}

\* C9: the member spans of a group are pairwise distinct, count is the number
\* of members, each member is the first enriched event of its type with its
\* span, once all events are grouped the count is the number of distinct
\* spans of the type, and a second aggregation of the same enriched events
\* yields the same groups.
C9_FoldedGroups ==
    /\ \A g \in Range(grouped) :
          /\ \A i, j \in 1..Len(g.subevents) :
                i # j => g.subevents[i].match_span # g.subevents[j].match_span
          /\ g.count = Len(g.subevents)
          /\ \A m \in Range(g.subevents) :
                \E i \in OfType(g.event_type) :
                   /\ enriched_events[i] = m
                   /\ \A j \in OfType(g.event_type) :
                         j < i => enriched_events[j].match_span # m.match_span
    /\ \A i, j \in 1..Len(grouped) :
          i # j => grouped[i].event_type # grouped[j].event_type
    /\ fpc \in {"finalize", "reported"} =>
          /\ \A k \in 1..Len(enriched_events) :
                \E g \in Range(grouped) : g.event_type = enriched_events[k].event_type
          /\ \A g \in Range(grouped) :
                g.count = Cardinality({enriched_events[k].match_span :
                                          k \in OfType(g.event_type)})
    /\ (fpc = "reported" /\ pass = 2) => grouped_list = first_grouped_list

\* C9 witness: the second aggregation is complete and a group has fewer
\* members than there are enriched events of its type.
C9_Witness ==
    /\ fpc = "reported"
    /\ pass = 2
    /\ \E g \in Range(grouped_list) :
          /\ g.count >= 1
          /\ g.count < Cardinality(OfType(g.event_type))

\* The relations of the members of a group.
MemberRelations(g) == {g.subevents[k].time_relation : k \in 1..Len(g.subevents)}

Returned == SubSeq(scored, 1, Len(dangerous))

\* C11: find_dangerous_sentences returns at most 10 sentences, the first 10
\* (or all) of the surviving sentences ordered by non-increasing score;
\* sentences of equal score keep their document order, and no surviving
\* sentence outside the result has a higher score than one inside it.
C11_TopTenRanked ==
    xpc = "returned" =>
       /\ Len(dangerous) <= 10
       /\ Len(dangerous) = IF Len(scored) < 10 THEN Len(scored) ELSE 10
       /\ Len(scored) = Cardinality(seen_fingerprints)
       /\ \A k \in 1..Len(dangerous) : dangerous[k] = scored[k].display
       /\ \A i, j \in 1..Len(scored) :
             i < j =>
                /\ scored[i].score >= scored[j].score
                /\ scored[i].score = scored[j].score =>
                      scored[i].sent < scored[j].sent
       /\ \A i \in 1..Len(dangerous) :
             \A j \in (Len(dangerous) + 1)..Len(scored) :
                scored[j].score <= scored[i].score

\* C11 witness: more than 10 sentences survive, 10 are returned, and the
\* ranking moved a later sentence in front of an earlier one.
C11_Witness ==
    /\ xpc = "returned"
    /\ Len(scored) > 10
    /\ Len(dangerous) = 10
    /\ \E i, j \in 1..Len(dangerous) : i < j /\ scored[i].sent > scored[j].sent
    /\ \E i, j \in 1..Len(dangerous) :
          i < j /\ scored[i].score = scored[j].score

\* A sentence without its punctuation and whitespace, in lower case.
Unpunctuated(s) == SelectSeq(str_lower(s), IsWordChar)

\* Two sentences that differ only in punctuation, letter case or whitespace.
SamePhrasing(s1, s2) == s1 # s2 /\ Unpunctuated(s1) = Unpunctuated(s2)

\* The sentence at index i is returned.
Emitted(i) == \E k \in 1..Len(dangerous) : scored[k].sent = i

\* The sentence passes the filters that precede the fingerprint: six words,
\* no boilerplate, a phrase of the lexicon and a risk-context word.
PassesFilters(s) ==
    /\ WordCount(s) >= 6
    /\ ~_is_boilerplate(s, lexicon[4])
    /\ \E ph \in lexicon[1] \cup lexicon[2] : Contains(str_lower(s), ph)
    /\ _has_risk_context(str_lower(s), lexicon[3])

\* C12 as stated: of two sentences that differ only in punctuation, letter
\* case or whitespace, both have the same fingerprint and the later one is
\* not in the output (only the first is).
C12_OnlyFirstRetained ==
    xpc = "returned" =>
       \A i, j \in 1..Len(sentences) :
          (i < j /\ SamePhrasing(sentences[i], sentences[j])) =>
             /\ Fingerprint(str_lower(sentences[i]))
                   = Fingerprint(str_lower(sentences[j]))
             /\ ~Emitted(j)

\* C12 amended: two such sentences have the same fingerprint and at most one
\* of them is in the output, the first in document order that passes the
\* word-count, boilerplate, phrase and risk-context filters; the
\* fingerprints of the emitted sentences are pairwise distinct.
C12_FirstPassingRetained ==
    xpc = "returned" =>
       /\ \A i, j \in 1..Len(sentences) :
             (i < j /\ SamePhrasing(sentences[i], sentences[j])) =>
                /\ Fingerprint(str_lower(sentences[i]))
                      = Fingerprint(str_lower(sentences[j]))
                /\ ~(Emitted(i) /\ Emitted(j))
                /\ Emitted(j) => ~PassesFilters(sentences[i])
       /\ \A k \in 1..Len(scored) :
             /\ scored[k].fingerprint
                   = SelectSeq(str_lower(sentences[scored[k].sent]),
                               LAMBDA c : c \in LowerSet)
             /\ PassesFilters(sentences[scored[k].sent])
             /\ \A i \in 1..(scored[k].sent - 1) :
                   Fingerprint(str_lower(sentences[i])) = scored[k].fingerprint
                      => ~PassesFilters(sentences[i])
       /\ \A k1, k2 \in 1..Len(scored) :
             k1 # k2 => scored[k1].fingerprint # scored[k2].fingerprint

\* C12 witness: of two sentences that differ only in case and punctuation
\* the first is returned and the second is not, and in another pair the
\* second is returned because the first did not pass the filters.
C12_Witness ==
    /\ xpc = "returned"
    /\ \E i, j \in 1..Len(sentences) :
          /\ i < j /\ SamePhrasing(sentences[i], sentences[j])
          /\ Emitted(i) /\ ~Emitted(j) /\ PassesFilters(sentences[j])
    /\ \E i, j \in 1..Len(sentences) :
          /\ i < j /\ SamePhrasing(sentences[i], sentences[j])
          /\ ~Emitted(i) /\ Emitted(j)

\* The critical and the high-priority phrases a sentence contains.
CriticalIn(s) == {ph \in lexicon[1] : Contains(str_lower(s), ph)}
HighIn(s)     == {ph \in lexicon[2] : Contains(str_lower(s), ph)}

\* The sentence at index i survived: it has an entry in scored.
Survived(i) == \E k \in 1..Len(scored) : scored[k].sent = i

\* The sentence s with the phrase ph added as its last word.
Appended(s, ph) == SubSeq(s, 1, Len(s) - 1) \o <<" ">> \o ph \o <<".">>

\* The parts of C13 that do not depend on the other filters: the score of a
\* surviving sentence is 15 per critical phrase plus 10 per high-priority
\* phrase it contains; a sentence with a critical phrase and no risk-context
\* word does not survive; a sentence with one more critical phrase added
\* does not score less than the sentence without it.
ScoreRule ==
    /\ \A k \in 1..Len(scored) :
          scored[k].score = 15 * Cardinality(CriticalIn(sentences[scored[k].sent]))
                            + 10 * Cardinality(HighIn(sentences[scored[k].sent]))
    /\ \A i \in 1..Len(sentences) :
          (CriticalIn(sentences[i]) # {}
             /\ WordSet(str_lower(sentences[i])) \cap lexicon[3] = {})
          => ~Survived(i)
    /\ \A k1, k2 \in 1..Len(scored) :
          (\E ph \in lexicon[1] :
              sentences[scored[k2].sent] = Appended(sentences[scored[k1].sent], ph))
          => scored[k2].score >= scored[k1].score

\* Exactly two critical phrases, no high-priority phrase, a risk-context word.
TwoCriticalInContext(s) ==
    /\ Cardinality(CriticalIn(s)) = 2
    /\ HighIn(s) = {}
    /\ WordSet(str_lower(s)) \cap lexicon[3] # {}

\* C13 as stated: the score rule, and every sentence with two distinct
\* critical phrases and a risk-context word scores 30 and is returned.
C13_ThirtyAlwaysRetained ==
    xpc = "returned" =>
       /\ ScoreRule
       /\ \A i \in 1..Len(sentences) :
             TwoCriticalInContext(sentences[i]) =>
                \E k \in 1..Len(dangerous) :
                   scored[k].sent = i /\ scored[k].score = 30

\* C13 amended: the score rule, and a sentence with two distinct critical
\* phrases and a risk-context word scores 30 and survives provided it has
\* six words, is not boilerplate and has a fingerprint of at least 35
\* letters that no earlier sentence passing the filters has; it is returned
\* when it is among the first 10 of the ranking.
C13_ThirtyRetainedIfKept ==
    xpc = "returned" =>
       /\ ScoreRule
       /\ \A i \in 1..Len(sentences) :
             (/\ TwoCriticalInContext(sentences[i])
              /\ WordCount(sentences[i]) >= 6
              /\ ~_is_boilerplate(sentences[i], lexicon[4])
              /\ Len(Fingerprint(str_lower(sentences[i]))) >= 35
              /\ \A j \in 1..(i - 1) :
                    (Fingerprint(str_lower(sentences[j]))
                        = Fingerprint(str_lower(sentences[i])))
                    => ~PassesFilters(sentences[j]))
             => \E k \in 1..Len(scored) :
                   /\ scored[k].sent = i
                   /\ scored[k].score = 30
                   /\ k <= 10 => (k <= Len(dangerous) /\ dangerous[k] = scored[k].display)

\* C13 witness: a sentence with two critical phrases and a risk-context word
\* is returned with score 30, a sentence with a critical phrase and no
\* risk-context word is dropped, and a sentence with one more critical
\* phrase scores more than the one without it.
C13_Witness ==
    /\ xpc = "returned"
    /\ \E i \in 1..Len(sentences) :
          /\ TwoCriticalInContext(sentences[i])
          /\ \E k \in 1..Len(dangerous) : scored[k].sent = i /\ scored[k].score = 30
    /\ \E i \in 1..Len(sentences) :
          /\ CriticalIn(sentences[i]) # {}
          /\ WordSet(str_lower(sentences[i])) \cap lexicon[3] = {}
          /\ ~Survived(i)
    /\ \E k1, k2 \in 1..Len(scored) :
          /\ \E ph \in lexicon[1] :
                sentences[scored[k2].sent] = Appended(sentences[scored[k1].sent], ph)
          /\ scored[k2].score > scored[k1].score

\* The lexicon holds exactly the four keyword sets, in the order of loading.
FullLexicon ==
    /\ Len(lexicon) = Len(KeyFiles)
    /\ \A k \in 1..Len(KeyFiles) : lexicon[k] = KeySets[KeyFiles[k]]

\* No step of the extraction proper has run.
NothingExtracted ==
    /\ sentences = <<>>
    /\ seen_fingerprints = {}
    /\ scored = <<>>
    /\ dangerous = <<>>

\* C14: when one of the four keyword files is missing,
\* find_dangerous_sentences raises before it splits or scores anything, the
\* filing ends in the error entry and detect_events is never called for it;
\* splitting and scoring only ever run with all four keyword sets loaded.
C14_MissingLexiconFatal ==
    /\ key_present # AllKeyFiles =>
          /\ xpc \in {"load", "raised"}
          /\ NothingExtracted
          /\ outcome \in {"none", "error_entry"}
          /\ Len(lexicon) < Len(KeyFiles)
    /\ xpc = "raised" =>
          /\ key_present # AllKeyFiles
          /\ KeyFiles[Len(lexicon) + 1] \notin key_present
    /\ xpc \in {"split", "score", "returned"} => FullLexicon
    /\ outcome = "detect_events" => xpc = "returned" /\ FullLexicon
    /\ outcome = "error_entry" => xpc = "raised"

\* C14 witness: a call raised after it had loaded some of the keyword sets,
\* and the filing got its error entry.
C14_Witness ==
    /\ xpc = "raised"
    /\ outcome = "error_entry"
    /\ Len(lexicon) >= 1
    /\ NothingExtracted

\* The occurrence carries a T_star_days that int() does not take: the
\* catalog entry has none, or one that is not a number.
BadMetadata(ev) == IntOf(ev.T_star_days) = None

\* The detected occurrences without those of bad metadata.
WithoutBad == SelectSeq(detected, LAMBDA ev : ~BadMetadata(ev))

\* The enrichment of a list of occurrences of this filing.
EnrichAll(occs) ==
    [k \in 1..Len(occs) |->
        Enriched(occs[k],
                 EventStart(_parse_date_nearest_to_span(full_text, occs[k].match_span,
                                                        filing_date, window_days),
                            filing_date),
                 today)]

RECURSIVE GroupAll(_, _)
\* The grouped table after the enriched events evs are added to groups.
GroupAll(evs, groups) ==
    IF evs = <<>> THEN groups
    ELSE GroupAll(Tail(evs), AddToGroups(groups, Head(evs)))

\* grouped_list of a filing whose detected occurrences are occs.
ReportOf(occs) ==
    LET groups == GroupAll(EnrichAll(occs), <<>>)
    IN  [k \in 1..Len(groups) |-> FinalGroup(groups[k], today)]

C16_ExtractReadsNoFile ==
    xpc \in {"load", "split", "score", "returned", "raised"} => file_reads = 0

\* C17: the date chosen for an occurrence is the date of a surviving
\* candidate whose midpoint is nearest to the midpoint of the occurrence
\* span and, among the candidates equally near, of the one with the smallest
\* start offset, whatever the shapes of the dates.
C17_NearestFirstInDocument ==
    (fpc = "parsed" /\ candidates # <<>>) =>
       LET span == detected[loop].match_span
       IN  \E c \in Range(candidates) :
              /\ parsed = Some(c.d)
              /\ \A o \in Range(candidates) :
                    /\ Dist2(c, span) <= Dist2(o, span)
                    /\ Dist2(o, span) = Dist2(c, span) => c.ds <= o.ds

\* event_start of the k-th detected occurrence: Some(date) or None.
ResolvedStart(k) ==
    EventStart(_parse_date_nearest_to_span(full_text, detected[k].match_span,
                                           filing_date, window_days),
               filing_date)

\* No date of the document survives the window filter.
NoCandidateLeft ==
    WindowFilter(_find_dates_in_text(full_text), filing_date, window_days) = <<>>

\* C18: when no date candidate is left, an occurrence starts on the filing
\* date if the filing has one; without a filing date its start date is
\* absent and its time relation is 'unknown'.
C18_FallsBackToFilingDate ==
    NoCandidateLeft =>
       \A k \in 1..Len(enriched_events) :
          IF filing_date # NotAvailable
          THEN enriched_events[k].event_started_on
                  = Some(<<filing_date.y, filing_date.m, filing_date.d>>)
          ELSE /\ enriched_events[k].event_started_on = None
               /\ enriched_events[k].time_relation = "unknown"

\* C19: the time relation of an enriched occurrence is 'unknown' if no
\* start date could be resolved; otherwise 'past' if its end is before
\* today, otherwise 'future' if its start is after today, otherwise
\* 'ongoing'.
C19_TimeRelationRule ==
    \A k \in 1..Len(enriched_events) :
       LET start == ResolvedStart(k)
           T     == IntOf(detected[k].T_star_days)
           rel   == enriched_events[k].time_relation
       IN  IF start = None THEN rel = "unknown"
           ELSE IF T # None /\ start[1] + T[1] < today THEN rel = "past"
           ELSE IF start[1] > today THEN rel = "future"
           ELSE rel = "ongoing"

\* C20: an occurrence whose event type has no T_star_days and whose start
\* date is resolved keeps event_started_on, has event_ends_on and
\* days_remaining absent, and has time relation 'future' if it starts after
\* today and 'ongoing' otherwise.
C20_NoDurationKeepsStart ==
    \A k \in 1..Len(enriched_events) :
       (detected[k].T_star_days = None /\ ResolvedStart(k) # None) =>
          /\ enriched_events[k].event_started_on
                = Some(IsoFormat(ResolvedStart(k)[1]))
          /\ enriched_events[k].event_ends_on = None
          /\ enriched_events[k].days_remaining = None
          /\ enriched_events[k].time_relation
                = IF ResolvedStart(k)[1] > today THEN "future" ELSE "ongoing"

\* ---------------------------------------------------- aggregation: claims

\* The day number of a present ISO date field.
FieldOrdinal(o) == ToOrdinal(o[1][1], o[1][2], o[1][3])

\* The start days of the members of a group that have one.
MemberStarts(g) ==
    {FieldOrdinal(g.subevents[k].event_started_on) :
        k \in {j \in 1..Len(g.subevents) : g.subevents[j].event_started_on # None}}

\* The end days of the members of a group that have one.
MemberEnds(g) ==
    {FieldOrdinal(g.subevents[k].event_ends_on) :
        k \in {j \in 1..Len(g.subevents) : g.subevents[j].event_ends_on # None}}

\* C21: a group's event_started_on is the earliest start of the members
\* that have one and its event_ends_on the latest end of the members that
\* have one, each absent when no member has one; days_remaining is the
\* group end minus today, and absent when the group end is absent.
C21_GroupDates ==
    \A g \in Range(grouped_list) :
       /\ IF MemberStarts(g) = {} THEN g.event_started_on = None
          ELSE /\ g.event_started_on # None
               /\ FieldOrdinal(g.event_started_on) \in MemberStarts(g)
               /\ \A s \in MemberStarts(g) : FieldOrdinal(g.event_started_on) <= s
       /\ IF MemberEnds(g) = {} THEN g.event_ends_on = None
          ELSE /\ g.event_ends_on # None
               /\ FieldOrdinal(g.event_ends_on) \in MemberEnds(g)
               /\ \A e \in MemberEnds(g) : FieldOrdinal(g.event_ends_on) >= e
       /\ IF g.event_ends_on = None THEN g.days_remaining = None
          ELSE g.days_remaining = Some(FieldOrdinal(g.event_ends_on) - today)

\* C21 witness: a reported group with two different member starts whose
\* first member starts later than the group does.
C21_Witness ==
    /\ fpc = "reported"
    /\ \E g \in Range(grouped_list) :
          /\ Cardinality(MemberStarts(g)) >= 2
          /\ g.subevents[1].event_started_on # None
          /\ FieldOrdinal(g.subevents[1].event_started_on)
                > FieldOrdinal(g.event_started_on)
          /\ g.days_remaining # None

\* Member i of a group comes before member j in the order of the claim:
\* explicit origin before keyword origin, then the longer matched text, then
\* the earlier place in the group.
ComesBefore(g, i, j) ==
    LET explicit(k) == g.subevents[k].pattern_source = "regex"
        length(k)   == Len(g.subevents[k].match_text)
    IN  \/ explicit(i) /\ ~explicit(j)
        \/ explicit(i) = explicit(j) /\ length(i) > length(j)
        \/ explicit(i) = explicit(j) /\ length(i) = length(j) /\ i < j

\* C22: the representative match (and T_star_days) of a group is that of
\* the member that comes before every other member in the order by origin
\* (explicit first), matched-text length (longer first) and place in the
\* group (earlier first); it is of keyword origin only if no member of the
\* group is of explicit origin.
C22_RepresentativeMember ==
    \A g \in Range(grouped_list) :
       \E r \in 1..Len(g.subevents) :
          /\ \A k \in 1..Len(g.subevents) : k # r => ComesBefore(g, r, k)
          /\ g.representative_match = g.subevents[r].match_text
          /\ g.T_star_days = g.subevents[r].T_star_days
          /\ g.subevents[r].pattern_source # "regex" =>
                \A k \in 1..Len(g.subevents) :
                   g.subevents[k].pattern_source # "regex"

\* C22 witness: a reported group whose first member is a keyword match, whose
\* representative is the matched text of a later member, and in which two
\* members of one origin have matched texts of the same length but different
\* letters.
C22_Witness ==
    /\ fpc = "reported"
    /\ \E g \in Range(grouped_list) :
          /\ g.subevents[1].pattern_source = "keyword"
          /\ g.representative_match # g.subevents[1].match_text
          /\ \E i, j \in 1..Len(g.subevents) :
                /\ i < j
                /\ g.subevents[i].pattern_source = g.subevents[j].pattern_source
                /\ Len(g.subevents[i].match_text) = Len(g.subevents[j].match_text)
                /\ g.subevents[i].match_text # g.subevents[j].match_text

\* The text holds a critical or high-priority phrase and a risk-context
\* word as one of its whole words.
PhraseAndRiskWord(s) ==
    /\ \E ph \in lexicon[1] \cup lexicon[2] : Contains(str_lower(s), ph)
    /\ \E w \in lexicon[3] : w \in WordSet(str_lower(s))

\* C23 as stated: every returned sentence contains a critical or
\* high-priority phrase and a risk-context word as a whole word, and has a
\* score of at least 10.
C23_EmittedHoldPhraseAndRiskWord ==
    \A k \in 1..Len(dangerous) :
       /\ PhraseAndRiskWord(dangerous[k])
       /\ scored[k].score >= MinScore

\* C23 amended: every returned string is the display form of a sentence of
\* the document that contains a critical or high-priority phrase and a
\* risk-context word as a whole word and has a score of at least 10; the
\* returned string itself contains them when the sentence has at most 280
\* characters.
C23_SourceHoldsPhraseAndRiskWord ==
    \A k \in 1..Len(dangerous) :
       LET s == sentences[scored[k].sent]
       IN  /\ dangerous[k] = _smart_truncate(s)
           /\ PhraseAndRiskWord(s)
           /\ scored[k].score >= MinScore
           /\ Len(s) <= MaxDisplay => PhraseAndRiskWord(dangerous[k])

\* C23 witness: a call returned the sentence with a whole-word risk-context
\* word and not the sentence of the same document that has risk-context
\* words only inside longer words.
C23_Witness ==
    /\ xpc = "returned"
    /\ dangerous = <<S_High>>
    /\ \E i \in 1..Len(sentences) :
          /\ sentences[i] = S_Substring
          /\ \E w \in lexicon[3] : Contains(str_lower(sentences[i]), w)
          /\ ~Emitted(i)

\* The truncation marker.
TruncationMarker == Str(" [...]")

\* The offsets below the 280th character of s at which a period is followed
\* by a space.
PeriodsBeforeLimit(s) ==
    {p \in 1..(MaxDisplay - 1) : p < Len(s) /\ s[p] = "." /\ s[p + 1] = " "}

\* d is the display form the claim gives to the sentence s.
DisplayOf(s, d) ==
    IF Len(s) <= MaxDisplay THEN d = s
    ELSE IF PeriodsBeforeLimit(s) # {}
    THEN /\ Len(d) \in PeriodsBeforeLimit(s)
         /\ \A p \in PeriodsBeforeLimit(s) : p <= Len(d)
         /\ \A i \in 1..Len(d) : d[i] = s[i]
    ELSE /\ Len(d) = MaxDisplay + Len(TruncationMarker)
         /\ \A i \in 1..MaxDisplay : d[i] = s[i]
         /\ \A i \in 1..Len(TruncationMarker) :
               d[MaxDisplay + i] = TruncationMarker[i]

\* C24: the display of a scored sentence is the sentence itself when it has
\* at most 280 characters; else its prefix up to the last period followed
\* by a space below the 280th character, when there is one; else its first
\* 280 characters followed by the marker " [...]".  What precedes the
\* marker is always a prefix of the sentence.
C24_SmartTruncate ==
    \A k \in 1..Len(scored) :
       LET s == sentences[scored[k].sent]
           d == scored[k].display
       IN  /\ DisplayOf(s, d)
           /\ \E n \in 0..Len(s) :
                 d \in {SubSeq(s, 1, n), SubSeq(s, 1, n) \o TruncationMarker}

\* C24 witness: a call scored a sentence cut at the second of two periods,
\* and a sentence with a period as its 280th character that was hard-cut
\* and marked.
C24_Witness ==
    /\ xpc = "returned"
    /\ \E k \in 1..Len(scored) :
          /\ sentences[scored[k].sent] = S_LongTwo
          /\ Cardinality(PeriodsBeforeLimit(S_LongTwo)) = 2
          /\ Len(scored[k].display) < MaxDisplay
    /\ \E k \in 1..Len(scored) :
          /\ sentences[scored[k].sent] = S_LongEdge
          /\ Len(scored[k].display) = MaxDisplay + Len(TruncationMarker)

\* ------------------------------------------------ working directory: claims

\* C25: whenever no request is being served, the working directory of the
\* process is the directory it had before the first request, and the
\* working directory is never a directory that has been deleted.
C25_CwdRestored ==
    /\ (\A t \in Workers : tpc[t] = "idle") => cwd = StartDir
    /\ cwd \in dirs

\* --------------------------------------------- overlap resolution: claims

\* The number of elements of a list that equal v.
Count(q, v) == Cardinality({i \in 1..Len(q) : q[i] = v})

\* Two spans overlap: each starts before the other ends.
SpansOverlap(sp1, sp2) == sp1[1] < sp2[2] /\ sp2[1] < sp1[2]

\* C26: every occurrence of the result is one of the raw matches,
\* unchanged, and every raw match that is missing from the result overlaps
\* an occurrence of the result whose span is at least as long as its own.
C26_MaximalResolution ==
    pc = "done" =>
       /\ \A d \in Range(detected) : Count(detected, d) <= Count(raw_matches, d)
       /\ \A r \in Range(raw_matches) :
             Count(detected, r) < Count(raw_matches, r) =>
                \E d \in Range(detected) :
                   /\ SpansOverlap(r.match_span, d.match_span)
                   /\ SpanLen(d.match_span) >= SpanLen(r.match_span)

\* C26 witness: a result with two occurrences whose spans touch, from which
\* a raw match was dropped.
C26_Witness ==
    /\ pc = "done"
    /\ Len(raw_matches) > Len(detected)
    /\ \E i, j \in 1..Len(detected) :
          /\ detected[i].match_span[2] = detected[j].match_span[1]
          /\ SpanLen(detected[i].match_span) > 0
          /\ SpanLen(detected[j].match_span) > 0

\* C27: in a group of the pipeline either every member has time relation
\* 'unknown' or no member has.
C27_UnknownUniformInGroup ==
    \A g \in Range(grouped_list) :
       \/ MemberRelations(g) = {"unknown"}
       \/ "unknown" \notin MemberRelations(g)

====
